---- MODULE Spec2Model ----
(***************************************************************************)
(* Obstacle-distance delivery pipeline of services/depth/depth.py:         *)
(* camera reader threads (ManagedCamera.camera_reader) push samples onto   *)
(* MavlinkIntegration.obstacle_queue, a deque(maxlen=10); the sender       *)
(* thread (MavlinkIntegration.send_obstacles) pops them and emits          *)
(* OBSTACLE_DISTANCE messages using the per-sensor dictionaries            *)
(* camera_params and last_obstacle_distance_sent_ms.                       *)
(*                                                                         *)
(* Three specifications share the same actions:                            *)
(*   Spec      the service (RealsenseService.start, readers, sender) with  *)
(*             failing frame waits and failing frame processing;           *)
(*   SpecBurst the same service with a long burst of frames whose          *)
(*             timestamps advance by one, enough to overrun the queue;     *)
(*   SpecMav   a MavlinkIntegration object driven through its public       *)
(*             surface (configure_sensor, obstacle_queue.append) by        *)
(*             arbitrary callers, with the sender thread running.          *)
(***************************************************************************)
EXTENDS Integers, Sequences, FiniteSets, TLC

(* ------------------------------ bounds --------------------------------- *)
\* longest run of consecutive wait_for_frames failures of a camera
MaxFails == 3
\* largest frame timestamp (ms) of a device in Spec
MaxClock == 1
\* frames per camera in SpecBurst
MaxBurst == 6
\* largest timestamp (ms) a caller passes in SpecMav
MaxTime == 1
\* calls of configure_sensor / obstacle_queue.append by callers in SpecMav
MaxCalls == 4
\* frames per camera in SpecStop
MaxLife == 2
\* frames captured for a video stream, and buffers the stream asks for
MaxFrames == 6

(* ------------------------- program constants --------------------------- *)
FRONT_CAM_SENSOR_TYPE == 0
BACK_CAM_SENSOR_TYPE == 1
FRONT_CAM_FRAME == 12
BACK_CAM_FRAME == 12
QueueMaxLen == 10
StreamBufferLen == 5
distances_array_length == 72
DEPTH_WIDTH == 640
DEPTH_HEIGHT == 480
\* RealsenseService.obstacle_line_height_ratio = 0.18, in thousandths
service_line_height_ratio == 180
\* RealsenseService.obstacle_line_thickness_pixel
service_line_thickness_pixel == 10
\* the "no obstacle" value of a distance entry
NoObstacle == 65535

CameraNames == {"front", "back"}
SensorIds == {FRONT_CAM_SENSOR_TYPE, BACK_CAM_SENSOR_TYPE}

\* serial numbers given on the command line decide which cameras are listed
CameraLists == {<<>>, <<"front">>, <<"back">>, <<"front", "back">>}

sensor_type(c) == IF c = "front" THEN FRONT_CAM_SENSOR_TYPE ELSE BACK_CAM_SENSOR_TYPE
frame_type(c) == IF c = "front" THEN FRONT_CAM_FRAME ELSE BACK_CAM_FRAME
camera_facing_angle_degree(c) == IF c = "front" THEN 0 ELSE 180

\* depth_range_m = (0.1, 8.0): int(0.1 * 100) = 10, int(8.0 * 100) = 800
min_depth_cm == 10
max_depth_cm == 800

\* Angles are kept in units of 1/(2*72) degree so that hfov/2 and hfov/72
\* are exact for a horizontal field of view given in whole degrees.
DegUnits == 2 * distances_array_length

\* horizontal field of view (whole degrees) the intrinsics yield
Hfovs == {80}

\* abstract distance arrays distances_from_depth_image can return
Dists == {"near", "far"}

(* -------------------------- dictionaries ------------------------------- *)
\* d[k] = v  on a Python dict
DictSet(d, k, v) == [x \in (DOMAIN d) \cup {k} |-> IF x = k THEN v ELSE d[x]]
\* d.get(k, default)
DictGet(d, k, default) == IF k \in DOMAIN d THEN d[k] ELSE default
EmptyDict == [x \in {} |-> 0]

(* ------------------------------ deque ---------------------------------- *)
DequeAppendDropNewest(q, x, maxlen) == IF Len(q) >= maxlen THEN q ELSE Append(q, x)
\* collections.deque(maxlen=n).append(x): never blocks, never raises; a full
\* deque discards one item from the opposite (left) end.
DequeAppend(q, x, maxlen) == IF Len(q) >= maxlen THEN Append(Tail(q), x) ELSE Append(q, x)

DequePop(q) == [item |-> q[Len(q)], rest |-> SubSeq(q, 1, Len(q) - 1)]
DequePeekLeft(q) == [item |-> Head(q), rest |-> q]
\* deque.popleft() on a non-empty deque: the item removed and what is left
DequePopLeft(q) == [item |-> Head(q), rest |-> Tail(q)]

(* ----------------------------- geometry -------------------------------- *)
AngleOffsetFromEdge(facing, hfov) == facing * DegUnits - hfov * DegUnits
\* calculate_obstacle_params: angle_offset = facing - hfov/2
AngleOffset(facing, hfov) == facing * DegUnits - (hfov * DegUnits) \div 2
\* calculate_obstacle_params: increment_f = hfov / distances_array_length
IncrementF(hfov) == (hfov * DegUnits) \div distances_array_length

\* the fields are None until calculate_obstacle_params has set them; calculated
\* tells whether they hold numbers
NoGeometry == [calculated |-> FALSE, depth_hfov_deg |-> "None", angle_offset |-> "None", increment_f |-> "None"]
\* what calculate_obstacle_params leaves in the camera object
CameraGeometry(c, hfov) == [calculated |-> TRUE, depth_hfov_deg |-> hfov, angle_offset |-> AngleOffset(camera_facing_angle_degree(c), hfov), increment_f |-> IncrementF(hfov)]

(* --------------------------- scan line --------------------------------- *)
\* Rows are floats in the code; here rows and the ratio are kept in units
\* of 1/RowUnits, angles in whole degrees.
RowUnits == 1000

\* scan-line ratios (in 1/RowUnits) and thicknesses (pixels) a
\* ManagedCamera can be constructed with; nothing checks them
Ratios == {0 - 500, 0, 180, 1000, 1500}
Thicknesses == {0 - 10, 0, 1, 10, 480, 481}

\* vertical field of view (whole degrees) the intrinsics yield
Vfovs == {58}
\* depth scale of the device, in micrometres per raw unit (0.001 m)
DepthScales == {1000}

\* 1000 * sin of the angles used, in degrees
SinTab(d) == CASE d = 0 -> 0 [] d = 15 -> 259 [] d = 29 -> 485 [] d = 45 -> 707 [] d = 90 -> 1000
Sin1000(d) == IF d < 0 THEN 0 - SinTab(0 - d) ELSE SinTab(d)

FindObstacleLineHeightNoUpperClamp(ratio, vehicle_pitch, vfov_known, vfov) ==
  LET base == DEPTH_HEIGHT * ratio
      delta == IF vfov_known THEN (Sin1000(vehicle_pitch \div 2) * DEPTH_HEIGHT * RowUnits) \div Sin1000(vfov \div 2) ELSE 0
      h == base + delta
  IN IF h < 0 THEN 0 ELSE h
\* find_obstacle_line_height: DEPTH_HEIGHT * ratio, plus
\* sin(pitch/2) / sin(vfov/2) * DEPTH_HEIGHT when the vertical field of view
\* is known, then the sanity check; vehicle_pitch and vfov in degrees
find_obstacle_line_height(ratio, vehicle_pitch, vfov_known, vfov) ==
  LET base == DEPTH_HEIGHT * ratio
      delta == IF vfov_known THEN (Sin1000(vehicle_pitch \div 2) * DEPTH_HEIGHT * RowUnits) \div Sin1000(vfov \div 2) ELSE 0
      h == base + delta
  IN IF h < 0 THEN 0 ELSE IF h > DEPTH_HEIGHT * RowUnits THEN DEPTH_HEIGHT * RowUnits ELSE h

ConfigureDepthShapeUpperFromZero(obstacle_line_height, thickness) ==
  LET upper == obstacle_line_height + (thickness * RowUnits) \div 2
      lower == obstacle_line_height - (thickness * RowUnits) \div 2
      upper_c == IF upper > DEPTH_HEIGHT * RowUnits THEN DEPTH_HEIGHT * RowUnits ELSE IF upper < 0 THEN 0 ELSE upper
      lower_c == IF lower > DEPTH_HEIGHT * RowUnits THEN (DEPTH_HEIGHT - 1) * RowUnits ELSE IF lower < 0 THEN 0 ELSE lower
  IN [step |-> DEPTH_WIDTH \div distances_array_length,
      center_pixel |-> obstacle_line_height \div RowUnits,
      upper_pixel |-> upper_c \div RowUnits,
      lower_pixel |-> lower_c \div RowUnits]
ConfigureDepthShapeUpperUnclamped(obstacle_line_height, thickness) ==
  LET upper == obstacle_line_height + (thickness * RowUnits) \div 2
      lower == obstacle_line_height - (thickness * RowUnits) \div 2
      lower_c == IF lower > DEPTH_HEIGHT * RowUnits THEN (DEPTH_HEIGHT - 1) * RowUnits ELSE IF lower < 0 THEN 0 ELSE lower
  IN [step |-> DEPTH_WIDTH \div distances_array_length,
      center_pixel |-> obstacle_line_height \div RowUnits,
      upper_pixel |-> upper \div RowUnits,
      lower_pixel |-> lower_c \div RowUnits]
ConfigureDepthShapeLowerUnclamped(obstacle_line_height, thickness) ==
  LET upper == obstacle_line_height + (thickness * RowUnits) \div 2
      lower == obstacle_line_height - (thickness * RowUnits) \div 2
      upper_c == IF upper > DEPTH_HEIGHT * RowUnits THEN DEPTH_HEIGHT * RowUnits ELSE IF upper < RowUnits THEN RowUnits ELSE upper
  IN [step |-> DEPTH_WIDTH \div distances_array_length,
      center_pixel |-> obstacle_line_height \div RowUnits,
      upper_pixel |-> upper_c \div RowUnits,
      lower_pixel |-> lower \div RowUnits]
\* configure_depth_shape: step, and the three rows after the clamps and int()
configure_depth_shape(obstacle_line_height, thickness) ==
  LET upper == obstacle_line_height + (thickness * RowUnits) \div 2
      lower == obstacle_line_height - (thickness * RowUnits) \div 2
      upper_c == IF upper > DEPTH_HEIGHT * RowUnits THEN DEPTH_HEIGHT * RowUnits ELSE IF upper < RowUnits THEN RowUnits ELSE upper
      lower_c == IF lower > DEPTH_HEIGHT * RowUnits THEN (DEPTH_HEIGHT - 1) * RowUnits ELSE IF lower < 0 THEN 0 ELSE lower
  IN [step |-> DEPTH_WIDTH \div distances_array_length,
      center_pixel |-> obstacle_line_height \div RowUnits,
      upper_pixel |-> upper_c \div RowUnits,
      lower_pixel |-> lower_c \div RowUnits]

\* the scan-line fields of a camera before connect: depth_scale is 0, the
\* others None; line_set and shape_set tell which hold numbers
NoDepthShape == [depth_scale |-> 0, vfov_set |-> FALSE, depth_vfov_deg |-> "None", line_set |-> FALSE, obstacle_line_height |-> "None",
                 shape_set |-> FALSE, step |-> "None", center_pixel |-> "None", upper_pixel |-> "None", lower_pixel |-> "None"]

\* connect read the depth scale and calculate_obstacle_params failed
ScaleOnly(scale) == [NoDepthShape EXCEPT !.depth_scale = scale]

\* what connect and calculate_obstacle_params leave in the camera object:
\* find_obstacle_line_height() with pitch 0, then configure_depth_shape()
CameraDepthShape(scale, vfov, ratio, thickness) ==
  LET h == find_obstacle_line_height(ratio, 0, TRUE, vfov)
      sh == configure_depth_shape(h, thickness)
  IN [depth_scale |-> scale, vfov_set |-> TRUE, depth_vfov_deg |-> vfov, line_set |-> TRUE, obstacle_line_height |-> h,
      shape_set |-> TRUE, step |-> sh.step, center_pixel |-> sh.center_pixel, upper_pixel |-> sh.upper_pixel, lower_pixel |-> sh.lower_pixel]

(* ------------------------ distance extraction -------------------------- *)
\* a depth matrix: every pixel holds base, except pixel (row, col), which holds val
DepthAt(depth_mat, r, col) == IF r = depth_mat.row /\ col = depth_mat.col THEN depth_mat.val ELSE depth_mat.base

\* np.min over the rows lower_pixel .. upper_pixel - 1 of a column; an empty
\* slice makes np.min raise ValueError
WindowEmpty(shape) == shape.lower_pixel >= shape.upper_pixel
\* distances_from_depth_image raises: int(None) before configure_depth_shape
\* has run, or np.min over an empty slice
ExtractRaises(shape) == ~shape.shape_set \/ WindowEmpty(shape)
MinPointInScan(depth_mat, shape, col) ==
  LET window == {DepthAt(depth_mat, r, col) : r \in shape.lower_pixel .. (shape.upper_pixel - 1)}
  IN CHOOSE x \in window : \A y \in window : x <= y

\* distances[i] = dist_m * 100 into a uint16 array: the fraction is cut off
Centimetres(dist_um) == (dist_um \div 10000) % 65536

DistancesFromDepthImageKeepsOutOfRange(depth_mat, distances, shape) ==
  [i \in 0 .. (distances_array_length - 1) |->
     LET dist_um == MinPointInScan(depth_mat, shape, i * shape.step) * shape.depth_scale
     IN IF dist_um > min_depth_cm * 10000 /\ dist_um < max_depth_cm * 10000 THEN Centimetres(dist_um) ELSE distances[i]]
DistancesFromDepthImageInclusive(depth_mat, distances, shape) ==
  [i \in 0 .. (distances_array_length - 1) |->
     LET dist_um == MinPointInScan(depth_mat, shape, i * shape.step) * shape.depth_scale
     IN IF dist_um >= min_depth_cm * 10000 /\ dist_um <= max_depth_cm * 10000 THEN Centimetres(dist_um) ELSE NoObstacle]
\* distances_from_depth_image: entry i is taken from column int(i * step);
\* distances in micrometres, the depth range (0.1 m, 8.0 m) exclusive; the
\* array handed in is written in place, every entry first with 65535
distances_from_depth_image(depth_mat, distances, shape) ==
  [i \in 0 .. (distances_array_length - 1) |->
     LET dist_um == MinPointInScan(depth_mat, shape, i * shape.step) * shape.depth_scale
     IN IF dist_um > min_depth_cm * 10000 /\ dist_um < max_depth_cm * 10000 THEN Centimetres(dist_um) ELSE NoObstacle]

\* the dictionary configure_sensor stores under camera_params[sensor_type]
Params(mind, maxd, off, inc, fr) == [min_depth_cm |-> mind, max_depth_cm |-> maxd, angle_offset |-> off, increment_f |-> inc, frame |-> fr]

\* sensing_time = int(round(depth_frame.timestamp * 1000)), timestamp in whole ms
SensingTime(timestamp_ms) == timestamp_ms * 1000

VARIABLES
  cameras,                          \* RealsenseService.cameras
  main_pc,                          \* position of the main thread in RealsenseService.start
  main_i,                           \* index of the camera a loop of start() is at
  active_cameras,                   \* local list of start()
  pipe,                             \* ManagedCamera.pipe: "None" | "created" | "started"
  geometry,                         \* ManagedCamera.depth_hfov_deg / angle_offset / increment_f
  depth_shape,                      \* ManagedCamera.depth_scale / depth_vfov_deg / obstacle_line_height / step / *_pixel
  obstacle_line_height_ratio,       \* RealsenseService.obstacle_line_height_ratio, handed to every camera
  obstacle_line_thickness_pixel,    \* RealsenseService.obstacle_line_thickness_pixel, handed to every camera
  mavlink_integration,              \* ManagedCamera.mavlink_integration is set
  camera_thread,                    \* ManagedCamera.camera_thread: "None" | "running" | "done"
  cam_time_to_exit,                 \* ManagedCamera.time_to_exit
  time_to_exit,                     \* RealsenseService.time_to_exit
  heartbeat_thread,                 \* MavlinkIntegration.heartbeat_thread: "created" | "running" | "done"
  receive_thread,                   \* MavlinkIntegration.receive_thread: "created" | "running" | "done"
  conn,                             \* MavlinkIntegration.conn: "open" | "closed"
  vehicle_pitch_rad,                \* MavlinkIntegration.vehicle_pitch_rad, in whole degrees
  heartbeat_event,                  \* history: how the last heartbeat_send ended, and the parity of the number of attempts
  receive_event,                    \* history: how the last iteration of receive_data ended
  obstacle_thread,                  \* MavlinkIntegration.obstacle_thread: "created" | "running" | "done"
  mav_time_to_exit,                 \* MavlinkIntegration.time_to_exit
  obstacle_queue,                   \* MavlinkIntegration.obstacle_queue
  camera_params,                    \* MavlinkIntegration.camera_params
  last_obstacle_distance_sent_ms,   \* MavlinkIntegration.last_obstacle_distance_sent_ms
  cam_distances,                    \* ManagedCamera.distances: the array distances_from_depth_image writes into, frame after frame
  clock,                            \* timestamp (ms) of the latest frame a camera got as far as appending
  pushes,                           \* history: samples appended per sensor id
  wait_fails,                       \* history: run of wait_for_frames failures a camera is in or has just left
  cam_event,                        \* history: how the last reader iteration of a camera ended
  sender_event,                     \* history: how the last sender iteration ended, and for which sensor id
  pops,                             \* history: samples popped by the sender
  consumed,                         \* history: how often each sample (sensor id, append number) was popped
  evicted,                          \* history: the samples (sensor id, append number) an append pushed out of the queue
  last_popped,                      \* history: seq of the last sample popped, per sensor id
  last_msg,                         \* history: last message the transport accepted, per sensor id
  config_call,                      \* history: number and arguments of the latest configure_sensor call
  start_ret,                        \* history: what the last start_processing call on a camera returned: "None" | "True" | "False"
  calls,                            \* history: calls made by callers in SpecMav
  color_buffer,                     \* StreamFactory.color_buffer: the frames waiting, by capture number
  last_frame,                       \* StreamFactory.last_frame: the frame handed out last (0 is the black frame of configure)
  number_frames,                    \* StreamFactory.number_frames: buffers pushed to the stream
  captured,                         \* history: frames handed to add_to_buffer
  ret                               \* history: the last direct call of distances_from_depth_image and what it returned

vars == <<color_buffer, last_frame, number_frames, captured, vehicle_pitch_rad, heartbeat_event, receive_event, cam_distances, cameras, main_pc, main_i, active_cameras, pipe, geometry, depth_shape, obstacle_line_height_ratio, obstacle_line_thickness_pixel, ret, mavlink_integration, camera_thread, cam_time_to_exit, time_to_exit, heartbeat_thread, receive_thread, conn, start_ret, obstacle_thread, mav_time_to_exit, obstacle_queue, camera_params, last_obstacle_distance_sent_ms, clock, pushes, evicted, wait_fails, cam_event, sender_event, pops, consumed, last_popped, last_msg, config_call, calls>>

cfgVars == <<obstacle_line_height_ratio, obstacle_line_thickness_pixel, ret>>
svcVars == <<cameras, main_pc, main_i, active_cameras, pipe, geometry, depth_shape, cfgVars, mavlink_integration, cam_time_to_exit, time_to_exit, start_ret>>
mavThreads == <<heartbeat_thread, receive_thread, conn>>
mavHist == <<heartbeat_event, receive_event>>
streamVars == <<color_buffer, last_frame, number_frames, captured>>
camHist == <<clock, wait_fails, cam_event, cam_distances>>
sendHist == <<sender_event, pops, consumed, last_popped, last_msg>>

SampleFrontOnly(d, t, s, n) == [distances |-> d, sensing_time |-> t, sensor_type |-> FRONT_CAM_SENSOR_TYPE, seq |-> n]
\* the tuple (distances.copy(), sensing_time, self.sensor_type); seq is a
\* history field: the number of this append among the appends for that sensor
Sample(d, t, s, n) == [distances |-> d, sensing_time |-> t, sensor_type |-> s, seq |-> n]

\* the arguments of conn.mav.obstacle_distance_send
ObstacleDistanceMsg(sensing_time, sensor, distances, params) ==
  [time_usec |-> sensing_time, sensor_type |-> sensor, distances |-> distances, increment |-> 0,
   min_distance |-> params.min_depth_cm, max_distance |-> params.max_depth_cm,
   increment_f |-> params.increment_f, angle_offset |-> params.angle_offset, frame |-> params.frame]

\* the state after RealsenseService() was constructed with a scan line of
\* the given ratio and thickness
InitWith(ratio, thickness) ==
  /\ cameras \in CameraLists
  /\ obstacle_line_height_ratio = ratio
  /\ obstacle_line_thickness_pixel = thickness
  /\ depth_shape = [c \in CameraNames |-> NoDepthShape]
  /\ ret = [fn |-> "None"]
  /\ vehicle_pitch_rad = 0
  /\ heartbeat_event = [kind |-> "none", tick |-> 0]
  /\ receive_event = "none"
  /\ cam_distances = [c \in CameraNames |-> "initial"]
  /\ main_pc = "init"
  /\ main_i = 1
  /\ active_cameras = <<>>
  /\ pipe = [c \in CameraNames |-> "None"]
  /\ geometry = [c \in CameraNames |-> NoGeometry]
  /\ mavlink_integration = [c \in CameraNames |-> FALSE]
  /\ camera_thread = [c \in CameraNames |-> "None"]
  /\ cam_time_to_exit = [c \in CameraNames |-> FALSE]
  /\ time_to_exit = FALSE
  /\ heartbeat_thread = "created"
  /\ receive_thread = "created"
  /\ conn = "open"
  /\ start_ret = [c \in CameraNames |-> "None"]
  /\ obstacle_thread = "created"
  /\ mav_time_to_exit = FALSE
  /\ obstacle_queue = <<>>
  /\ camera_params = EmptyDict
  /\ last_obstacle_distance_sent_ms = EmptyDict
  /\ clock = [c \in CameraNames |-> 0]
  /\ pushes = EmptyDict
  /\ wait_fails = [c \in CameraNames |-> 0]
  /\ cam_event = [c \in CameraNames |-> "none"]
  /\ sender_event = [kind |-> "none", sensor |-> -1]
  /\ pops = 0
  /\ consumed = EmptyDict
  /\ evicted = {}
  /\ last_popped = EmptyDict
  /\ last_msg = EmptyDict
  /\ config_call = [n |-> 0, sensor |-> -1, params |-> "None"]
  /\ calls = 0
  /\ color_buffer = <<>>
  /\ last_frame = 0
  /\ number_frames = 0
  /\ captured = 0

Init == InitWith(service_line_height_ratio, service_line_thickness_pixel)

(* --------------------- MavlinkIntegration methods ---------------------- *)
ConfigureSensorKeepLastSent(s, mind, maxd, off, inc, fr) ==
  /\ camera_params' = DictSet(camera_params, s, Params(mind, maxd, off, inc, fr))
  /\ last_obstacle_distance_sent_ms' = DictSet(last_obstacle_distance_sent_ms, s, DictGet(last_obstacle_distance_sent_ms, s, 0))
\* configure_sensor: both dictionaries are written for sensor_type only
ConfigureSensor(s, mind, maxd, off, inc, fr) ==
  /\ camera_params' = DictSet(camera_params, s, Params(mind, maxd, off, inc, fr))
  /\ last_obstacle_distance_sent_ms' = DictSet(last_obstacle_distance_sent_ms, s, 0)

\* history of a configure_sensor call: its number and its arguments
NoteConfigureCall(s, mind, maxd, off, inc, fr) ==
  config_call' = [n |-> config_call.n + 1, sensor |-> s, params |-> [min_depth_cm |-> mind, max_depth_cm |-> maxd, angle_offset |-> off, increment_f |-> inc, frame |-> fr]]

\* the samples of a queue, named by sensor id and append number
Keys(q) == {<<q[i].sensor_type, q[i].seq>> : i \in 1..Len(q)}

\* obstacle_queue.append((distances.copy(), sensing_time, sensor_type))
QueueAppend(d, t, s) ==
  /\ obstacle_queue' = DequeAppend(obstacle_queue, Sample(d, t, s, DictGet(pushes, s, 0) + 1), QueueMaxLen)
  /\ pushes' = DictSet(pushes, s, DictGet(pushes, s, 0) + 1)
  /\ evicted' = evicted \cup (Keys(obstacle_queue) \ Keys(obstacle_queue'))

LastSentTimeGlobal(s) == IF \E k \in DOMAIN last_obstacle_distance_sent_ms : last_obstacle_distance_sent_ms[k] # 0 THEN CHOOSE t \in {last_obstacle_distance_sent_ms[k] : k \in DOMAIN last_obstacle_distance_sent_ms} : t # 0 ELSE 0
\* last_sent_time = self.last_obstacle_distance_sent_ms.get(sensor_type, 0)
LastSentTime(s) == DictGet(last_obstacle_distance_sent_ms, s, 0)

SendOutcomeZeroIsNew(sample, transport_ok) ==
  IF sample.sensor_type \notin DOMAIN camera_params THEN "unconfigured"
  ELSE IF LastSentTime(sample.sensor_type) # 0 /\ sample.sensing_time = LastSentTime(sample.sensor_type) THEN "duplicate"
  ELSE IF transport_ok THEN "sent" ELSE "send_failed"
SendOutcomeNoSuppression(sample, transport_ok) ==
  IF sample.sensor_type \notin DOMAIN camera_params THEN "unconfigured"
  ELSE IF transport_ok THEN "sent" ELSE "send_failed"
\* how send_obstacle_distance_message ends for a sample: the two early
\* returns, then the try/except around the transport call
SendOutcome(sample, transport_ok) ==
  IF sample.sensor_type \notin DOMAIN camera_params THEN "unconfigured"
  ELSE IF sample.sensing_time = LastSentTime(sample.sensor_type) THEN "duplicate"
  ELSE IF transport_ok THEN "sent" ELSE "send_failed"

LastSentAfterOnSuccess(sample, outcome) ==
  IF outcome = "sent" THEN DictSet(last_obstacle_distance_sent_ms, sample.sensor_type, sample.sensing_time)
  ELSE last_obstacle_distance_sent_ms
LastSentAfterAlways(sample, outcome) ==
  IF outcome = "duplicate" THEN last_obstacle_distance_sent_ms
  ELSE DictSet(last_obstacle_distance_sent_ms, sample.sensor_type, sample.sensing_time)
\* self.last_obstacle_distance_sent_ms[sensor_type] = sensing_time, reached
\* only past the two early returns
LastSentAfter(sample, outcome) ==
  IF outcome \in {"unconfigured", "duplicate"} THEN last_obstacle_distance_sent_ms
  ELSE DictSet(last_obstacle_distance_sent_ms, sample.sensor_type, sample.sensing_time)

LookupParamsAny(s) == camera_params[CHOOSE k \in DOMAIN camera_params : \A j \in DOMAIN camera_params : k <= j]
\* params = self.camera_params[sensor_type]
LookupParams(s) == camera_params[s]

SenderThreadAfterUncaught(outcome) == IF outcome = "send_failed" THEN "done" ELSE "running"
\* every exception of an iteration is caught, in send_obstacle_distance_message
\* or in send_obstacles, so the loop goes on
SenderThreadAfter(outcome) == "running"

DistancesOfShared(sample) == cam_distances[IF sample.sensor_type = FRONT_CAM_SENSOR_TYPE THEN "front" ELSE "back"]
\* the array of a queued tuple as the sender reads it: the tuple holds a
\* copy (distances.copy()) made when it was appended, not the reader's array
DistancesOf(sample) == sample.distances

\* send_obstacle_distance_message(sensing_time, distances, sensor_type)
SendObstacleDistanceMessage(sample, transport_ok) ==
  LET s == sample.sensor_type
      outcome == SendOutcome(sample, transport_ok)
  IN /\ sender_event' = [kind |-> outcome, sensor |-> s]
     /\ last_obstacle_distance_sent_ms' = LastSentAfter(sample, outcome)
     /\ last_msg' = IF outcome = "sent"
                    THEN DictSet(last_msg, s, ObstacleDistanceMsg(sample.sensing_time, s, DistancesOf(sample), LookupParams(s)))
                    ELSE last_msg
     /\ obstacle_thread' = SenderThreadAfter(outcome)

SendObstaclesStopsWhenEmpty ==
  /\ obstacle_thread = "running"
  /\ ~mav_time_to_exit
  /\ IF obstacle_queue = <<>>
     THEN /\ sender_event' = [kind |-> "empty", sensor |-> -1]
          /\ UNCHANGED <<obstacle_queue, last_obstacle_distance_sent_ms, pops, consumed, last_popped, last_msg>>
          /\ obstacle_thread' = "done"
     ELSE LET popped == DequePopLeft(obstacle_queue) IN
          /\ obstacle_queue' = popped.rest
          /\ pops' = pops + 1
          /\ consumed' = DictSet(consumed, <<popped.item.sensor_type, popped.item.seq>>, DictGet(consumed, <<popped.item.sensor_type, popped.item.seq>>, 0) + 1)
          /\ last_popped' = DictSet(last_popped, popped.item.sensor_type, popped.item.seq)
          /\ \E transport_ok \in BOOLEAN : SendObstacleDistanceMessage(popped.item, transport_ok)
  /\ UNCHANGED <<svcVars, streamVars, vehicle_pitch_rad, mavHist, mavThreads, camera_thread, camHist, mav_time_to_exit, camera_params, pushes, evicted, config_call, calls>>
\* one iteration of the while loop of send_obstacles
SendObstacles ==
  /\ obstacle_thread = "running"
  /\ ~mav_time_to_exit
  /\ IF obstacle_queue = <<>>
     THEN /\ sender_event' = [kind |-> "empty", sensor |-> -1]
          /\ UNCHANGED <<obstacle_queue, last_obstacle_distance_sent_ms, pops, consumed, last_popped, last_msg, obstacle_thread>>
     ELSE LET popped == DequePopLeft(obstacle_queue) IN
          /\ obstacle_queue' = popped.rest
          /\ pops' = pops + 1
          /\ consumed' = DictSet(consumed, <<popped.item.sensor_type, popped.item.seq>>, DictGet(consumed, <<popped.item.sensor_type, popped.item.seq>>, 0) + 1)
          /\ last_popped' = DictSet(last_popped, popped.item.sensor_type, popped.item.seq)
          /\ \E transport_ok \in BOOLEAN : SendObstacleDistanceMessage(popped.item, transport_ok)
  /\ UNCHANGED <<svcVars, streamVars, vehicle_pitch_rad, mavHist, mavThreads, camera_thread, camHist, mav_time_to_exit, camera_params, pushes, evicted, config_call, calls>>

(* ----------------------- RealsenseService.start ------------------------ *)
\* MavlinkIntegration.start(): the three threads are started whether or not
\* a heartbeat was received
MavlinkStart ==
  /\ heartbeat_thread' = "running"
  /\ receive_thread' = "running"
  /\ obstacle_thread' = "running"

\* the head of start(): mavlink.start(), then start() returns at once when
\* no camera is listed. main_pc = "returned" is the main thread in the
\* "while True: time.sleep(1)" loop of __main__
ServiceStart ==
  /\ main_pc = "init"
  /\ MavlinkStart
  /\ main_pc' = IF cameras = <<>> THEN "returned" ELSE "discover"
  /\ UNCHANGED <<cfgVars, streamVars, vehicle_pitch_rad, mavHist, depth_shape, cameras, main_i, active_cameras, pipe, geometry, mavlink_integration, camera_thread, cam_time_to_exit, time_to_exit, conn, start_ret, mav_time_to_exit, obstacle_queue, camera_params, last_obstacle_distance_sent_ms, pushes, evicted, camHist, sendHist, config_call, calls>>

\* "if camera.find_device(): ... if camera.connect(...): active_cameras.append(camera)"
ActiveAfter(active, c, found, connected) == IF found /\ connected THEN Append(active, c) ELSE active

\* one iteration of "for camera in self.cameras" with find_device and
\* connect; after the last one self.cameras = active_cameras. A failed
\* connect leaves the pipeline object created but not started.
\* calculate_obstacle_params catches its own exceptions, so connect returns
\* True also when it failed and the geometry is still None; ParamsOutcomes
\* tells whether the intrinsics can be read
DiscoverCameraStep(ParamsOutcomes) ==
  /\ main_pc = "discover"
  /\ LET c == cameras[main_i] IN
     \E found \in BOOLEAN, connected \in BOOLEAN, params_ok \in ParamsOutcomes, hfov \in Hfovs :
       LET active == ActiveAfter(active_cameras, c, found, connected) IN
       /\ found \/ ~connected
       /\ connected \/ (hfov = (CHOOSE h \in Hfovs : TRUE) /\ params_ok = (CHOOSE o \in ParamsOutcomes : TRUE))
       /\ params_ok \/ hfov = (CHOOSE h \in Hfovs : TRUE)
       /\ pipe' = IF ~found THEN pipe ELSE [pipe EXCEPT ![c] = IF connected THEN "started" ELSE "created"]
       /\ geometry' = IF found /\ connected /\ params_ok THEN [geometry EXCEPT ![c] = CameraGeometry(c, hfov)] ELSE geometry
       /\ \E scale \in DepthScales, vfov \in Vfovs :
            depth_shape' = IF ~(found /\ connected) THEN depth_shape
                           ELSE [depth_shape EXCEPT ![c] = IF params_ok THEN CameraDepthShape(scale, vfov, obstacle_line_height_ratio, obstacle_line_thickness_pixel)
                                                           ELSE ScaleOnly(scale)]
       /\ IF main_i < Len(cameras)
          THEN /\ main_i' = main_i + 1
               /\ active_cameras' = active
               /\ UNCHANGED <<cameras, main_pc>>
          ELSE /\ main_i' = 1
               /\ active_cameras' = active
               /\ cameras' = active
               /\ main_pc' = IF active = <<>> THEN "returned" ELSE "start_processing"
  /\ UNCHANGED <<cfgVars, streamVars, vehicle_pitch_rad, mavHist, mavThreads, time_to_exit, start_ret, mavlink_integration, camera_thread, cam_time_to_exit, obstacle_thread, mav_time_to_exit, obstacle_queue, camera_params, last_obstacle_distance_sent_ms, pushes, evicted, camHist, sendHist, config_call, calls>>

\* the intrinsics are read
DiscoverCamera == DiscoverCameraStep({TRUE})
\* reading the intrinsics may fail
DiscoverCameraAny == DiscoverCameraStep(BOOLEAN)

\* configure_sensor logs angle_offset and increment_f with the format ":.3f"
\* after it has written both dictionaries: a None raises TypeError
ConfigureSensorRaises(c) == ~geometry[c].calculated

start_processing_unregistered(c) ==
  IF pipe[c] = "None"
  THEN /\ start_ret' = [start_ret EXCEPT ![c] = "False"]
       /\ UNCHANGED <<mavlink_integration, camera_params, last_obstacle_distance_sent_ms, config_call, cam_time_to_exit, camera_thread>>
  ELSE /\ mavlink_integration' = [mavlink_integration EXCEPT ![c] = TRUE]
       /\ UNCHANGED <<camera_params, last_obstacle_distance_sent_ms, config_call>>
       /\ cam_time_to_exit' = [cam_time_to_exit EXCEPT ![c] = FALSE]
       /\ camera_thread' = [camera_thread EXCEPT ![c] = "running"]
       /\ start_ret' = [start_ret EXCEPT ![c] = "True"]
\* ManagedCamera.start_processing
start_processing(c) ==
  IF pipe[c] = "None"
  THEN /\ start_ret' = [start_ret EXCEPT ![c] = "False"]
       /\ UNCHANGED <<mavlink_integration, camera_params, last_obstacle_distance_sent_ms, config_call, cam_time_to_exit, camera_thread>>
  ELSE /\ mavlink_integration' = [mavlink_integration EXCEPT ![c] = TRUE]
       /\ ConfigureSensor(sensor_type(c), min_depth_cm, max_depth_cm, geometry[c].angle_offset, geometry[c].increment_f, frame_type(c))
       /\ NoteConfigureCall(sensor_type(c), min_depth_cm, max_depth_cm, geometry[c].angle_offset, geometry[c].increment_f, frame_type(c))
       /\ IF ConfigureSensorRaises(c)
          THEN UNCHANGED <<cam_time_to_exit, camera_thread, start_ret>>
          ELSE /\ cam_time_to_exit' = [cam_time_to_exit EXCEPT ![c] = FALSE]
               /\ camera_thread' = [camera_thread EXCEPT ![c] = "running"]
               /\ start_ret' = [start_ret EXCEPT ![c] = "True"]

\* the first statement of RealsenseService.stop and where it goes next
StopBegin ==
  /\ time_to_exit' = TRUE
  /\ main_i' = 1
  /\ main_pc' = IF cameras = <<>> THEN "stop_mavlink" ELSE "stop_cameras"

\* one iteration of "for camera in self.cameras: camera.start_processing";
\* an exception of start_processing reaches the except clause of start(),
\* which calls self.stop() and raises again
StartProcessing ==
  /\ main_pc = "start_processing"
  /\ LET c == cameras[main_i] IN
     /\ start_processing(c)
     /\ IF pipe[c] # "None" /\ ConfigureSensorRaises(c)
        THEN StopBegin
        ELSE /\ UNCHANGED time_to_exit
             /\ IF main_i < Len(cameras)
                THEN main_i' = main_i + 1 /\ UNCHANGED main_pc
                ELSE main_i' = 1 /\ main_pc' = "returned"
  /\ UNCHANGED <<cfgVars, streamVars, vehicle_pitch_rad, mavHist, depth_shape, mavThreads, cameras, active_cameras, pipe, geometry, obstacle_thread, mav_time_to_exit, obstacle_queue, pushes, evicted, camHist, sendHist, calls>>

(* ------------------------ RealsenseService.stop ------------------------ *)
\* exit_int / exit_term: the handler of SIGINT and SIGTERM runs in the main
\* thread, here while it sleeps in __main__, and calls self.stop()
ExitSignal ==
  /\ main_pc = "returned"
  /\ StopBegin
  /\ UNCHANGED <<cfgVars, streamVars, vehicle_pitch_rad, mavHist, depth_shape, mavThreads, cameras, active_cameras, pipe, geometry, mavlink_integration, camera_thread, cam_time_to_exit, start_ret, obstacle_thread, mav_time_to_exit, obstacle_queue, camera_params, last_obstacle_distance_sent_ms, pushes, evicted, camHist, sendHist, config_call, calls>>

StopProcessingBeginNoFlag ==
  /\ main_pc = "stop_cameras"
  /\ main_pc' = "join_camera"
  /\ UNCHANGED <<cam_time_to_exit, cfgVars, streamVars, vehicle_pitch_rad, mavHist, depth_shape, mavThreads, cameras, main_i, active_cameras, pipe, geometry, mavlink_integration, camera_thread, time_to_exit, start_ret, obstacle_thread, mav_time_to_exit, obstacle_queue, camera_params, last_obstacle_distance_sent_ms, pushes, evicted, camHist, sendHist, config_call, calls>>
\* ManagedCamera.stop_processing up to the join: the exit flag is set
StopProcessingBegin ==
  /\ main_pc = "stop_cameras"
  /\ cam_time_to_exit' = [cam_time_to_exit EXCEPT ![cameras[main_i]] = TRUE]
  /\ main_pc' = "join_camera"
  /\ UNCHANGED <<cfgVars, streamVars, vehicle_pitch_rad, mavHist, depth_shape, mavThreads, cameras, main_i, active_cameras, pipe, geometry, mavlink_integration, camera_thread, time_to_exit, start_ret, obstacle_thread, mav_time_to_exit, obstacle_queue, camera_params, last_obstacle_distance_sent_ms, pushes, evicted, camHist, sendHist, config_call, calls>>

StopProcessingEndNoJoin ==
  /\ main_pc = "join_camera"
  /\ LET c == cameras[main_i] IN
     pipe' = IF pipe[c] # "None" THEN [pipe EXCEPT ![c] = "stopped"] ELSE pipe
  /\ IF main_i < Len(cameras)
     THEN main_i' = main_i + 1 /\ main_pc' = "stop_cameras"
     ELSE main_i' = 1 /\ main_pc' = "stop_mavlink"
  /\ UNCHANGED <<cfgVars, streamVars, vehicle_pitch_rad, mavHist, depth_shape, mavThreads, cameras, active_cameras, geometry, mavlink_integration, camera_thread, cam_time_to_exit, time_to_exit, start_ret, obstacle_thread, mav_time_to_exit, obstacle_queue, camera_params, last_obstacle_distance_sent_ms, pushes, evicted, camHist, sendHist, config_call, calls>>
\* ManagedCamera.stop_processing from the join on: camera_thread.join()
\* returns once the reader has left its loop (there is nothing to join when
\* the thread was never started), then pipe.stop(); then the next camera, or
\* mavlink.stop()
StopProcessingEnd ==
  /\ main_pc = "join_camera"
  /\ LET c == cameras[main_i] IN
     /\ camera_thread[c] # "running"
     /\ pipe' = IF pipe[c] # "None" THEN [pipe EXCEPT ![c] = "stopped"] ELSE pipe
  /\ IF main_i < Len(cameras)
     THEN main_i' = main_i + 1 /\ main_pc' = "stop_cameras"
     ELSE main_i' = 1 /\ main_pc' = "stop_mavlink"
  /\ UNCHANGED <<cfgVars, streamVars, vehicle_pitch_rad, mavHist, depth_shape, mavThreads, cameras, active_cameras, geometry, mavlink_integration, camera_thread, cam_time_to_exit, time_to_exit, start_ret, obstacle_thread, mav_time_to_exit, obstacle_queue, camera_params, last_obstacle_distance_sent_ms, pushes, evicted, camHist, sendHist, config_call, calls>>

\* MavlinkIntegration.stop up to the joins: the exit flag is set
MavlinkStopBegin ==
  /\ main_pc = "stop_mavlink"
  /\ mav_time_to_exit' = TRUE
  /\ main_pc' = "join_mavlink"
  /\ UNCHANGED <<cfgVars, streamVars, vehicle_pitch_rad, mavHist, depth_shape, mavThreads, cameras, main_i, active_cameras, pipe, geometry, mavlink_integration, camera_thread, cam_time_to_exit, time_to_exit, start_ret, obstacle_thread, obstacle_queue, camera_params, last_obstacle_distance_sent_ms, pushes, evicted, camHist, sendHist, config_call, calls>>

MavlinkStopEndNoJoin ==
  /\ main_pc = "join_mavlink"
  /\ conn' = "closed"
  /\ main_pc' = "exited"
  /\ UNCHANGED <<cfgVars, streamVars, vehicle_pitch_rad, mavHist, depth_shape, heartbeat_thread, receive_thread, cameras, main_i, active_cameras, pipe, geometry, mavlink_integration, camera_thread, cam_time_to_exit, time_to_exit, start_ret, obstacle_thread, mav_time_to_exit, obstacle_queue, camera_params, last_obstacle_distance_sent_ms, pushes, evicted, camHist, sendHist, config_call, calls>>
\* MavlinkIntegration.stop from the joins on: the three joins return once
\* the three loops were left, then conn.close(); stop() returns and the
\* process exits (sys.exit(0) of the handler, or the exception raised again)
MavlinkStopEnd ==
  /\ main_pc = "join_mavlink"
  /\ heartbeat_thread # "running"
  /\ receive_thread # "running"
  /\ obstacle_thread # "running"
  /\ conn' = "closed"
  /\ main_pc' = "exited"
  /\ UNCHANGED <<cfgVars, streamVars, vehicle_pitch_rad, mavHist, depth_shape, heartbeat_thread, receive_thread, cameras, main_i, active_cameras, pipe, geometry, mavlink_integration, camera_thread, cam_time_to_exit, time_to_exit, start_ret, obstacle_thread, mav_time_to_exit, obstacle_queue, camera_params, last_obstacle_distance_sent_ms, pushes, evicted, camHist, sendHist, config_call, calls>>

CameraReaderExitUnasked(c) ==
  /\ camera_thread[c] = "running"
  /\ camera_thread' = [camera_thread EXCEPT ![c] = "done"]
  /\ UNCHANGED <<svcVars, streamVars, vehicle_pitch_rad, mavHist, mavThreads, obstacle_thread, mav_time_to_exit, obstacle_queue, camera_params, last_obstacle_distance_sent_ms, pushes, evicted, camHist, sendHist, config_call, calls>>
\* "while not self.time_to_exit" of camera_reader is false: the thread ends
CameraReaderExit(c) ==
  /\ camera_thread[c] = "running"
  /\ cam_time_to_exit[c]
  /\ camera_thread' = [camera_thread EXCEPT ![c] = "done"]
  /\ UNCHANGED <<svcVars, streamVars, vehicle_pitch_rad, mavHist, mavThreads, obstacle_thread, mav_time_to_exit, obstacle_queue, camera_params, last_obstacle_distance_sent_ms, pushes, evicted, camHist, sendHist, config_call, calls>>

\* "while not self.time_to_exit" of send_obstacles is false: the thread ends,
\* whatever is left in the queue
SendObstaclesExit ==
  /\ obstacle_thread = "running"
  /\ mav_time_to_exit
  /\ obstacle_thread' = "done"
  /\ UNCHANGED <<svcVars, streamVars, vehicle_pitch_rad, mavHist, mavThreads, camera_thread, mav_time_to_exit, obstacle_queue, camera_params, last_obstacle_distance_sent_ms, pushes, evicted, camHist, sendHist, config_call, calls>>

\* "while not self.time_to_exit" of send_heartbeat is false: the thread ends
SendHeartbeatExit ==
  /\ heartbeat_thread = "running"
  /\ mav_time_to_exit
  /\ heartbeat_thread' = "done"
  /\ UNCHANGED <<svcVars, streamVars, vehicle_pitch_rad, mavHist, receive_thread, conn, camera_thread, obstacle_thread, mav_time_to_exit, obstacle_queue, camera_params, last_obstacle_distance_sent_ms, pushes, evicted, camHist, sendHist, config_call, calls>>

\* "while not self.time_to_exit" of receive_data is false: the thread ends
ReceiveDataExit ==
  /\ receive_thread = "running"
  /\ mav_time_to_exit
  /\ receive_thread' = "done"
  /\ UNCHANGED <<svcVars, streamVars, vehicle_pitch_rad, mavHist, heartbeat_thread, conn, camera_thread, obstacle_thread, mav_time_to_exit, obstacle_queue, camera_params, last_obstacle_distance_sent_ms, pushes, evicted, camHist, sendHist, config_call, calls>>

\* the iteration of send_obstacles that was under way when the exit flag was
\* set: it is carried out, then the loop test fails and the thread ends
SendObstaclesInFlight ==
  /\ obstacle_thread = "running"
  /\ mav_time_to_exit
  /\ obstacle_thread' = "done"
  /\ IF obstacle_queue = <<>>
     THEN /\ sender_event' = [kind |-> "empty", sensor |-> -1]
          /\ UNCHANGED <<obstacle_queue, last_obstacle_distance_sent_ms, pops, consumed, last_popped, last_msg>>
     ELSE LET popped == DequePopLeft(obstacle_queue)
              sample == popped.item
          IN /\ obstacle_queue' = popped.rest
             /\ pops' = pops + 1
             /\ consumed' = DictSet(consumed, <<sample.sensor_type, sample.seq>>, DictGet(consumed, <<sample.sensor_type, sample.seq>>, 0) + 1)
             /\ last_popped' = DictSet(last_popped, sample.sensor_type, sample.seq)
             /\ \E transport_ok \in BOOLEAN :
                  LET outcome == SendOutcome(sample, transport_ok)
                  IN /\ sender_event' = [kind |-> outcome, sensor |-> sample.sensor_type]
                     /\ last_obstacle_distance_sent_ms' = LastSentAfter(sample, outcome)
                     /\ last_msg' = IF outcome = "sent"
                                    THEN DictSet(last_msg, sample.sensor_type, ObstacleDistanceMsg(sample.sensing_time, sample.sensor_type, DistancesOf(sample), LookupParams(sample.sensor_type)))
                                    ELSE last_msg
  /\ UNCHANGED <<svcVars, streamVars, vehicle_pitch_rad, mavHist, mavThreads, camera_thread, camHist, mav_time_to_exit, camera_params, pushes, evicted, config_call, calls>>

\* the iteration of send_heartbeat that was under way when the exit flag was
\* set: the heartbeat is sent or fails, then the thread ends
SendHeartbeatInFlight ==
  /\ heartbeat_thread = "running"
  /\ mav_time_to_exit
  /\ heartbeat_thread' = "done"
  /\ \E sent \in BOOLEAN :
       heartbeat_event' = [kind |-> IF sent THEN "sent" ELSE "send_failed", tick |-> 1 - heartbeat_event.tick]
  /\ UNCHANGED <<svcVars, streamVars, vehicle_pitch_rad, receive_event, receive_thread, conn, camera_thread, obstacle_thread, mav_time_to_exit, obstacle_queue, camera_params, last_obstacle_distance_sent_ms, pushes, evicted, camHist, sendHist, config_call, calls>>

\* pitch angles ATTITUDE messages report, in degrees
AttitudePitches == {0 - 30, 0, 58}

ReceiveDataTurnsSensors(pitch) ==
  /\ receive_thread = "running"
  /\ ~mav_time_to_exit
  /\ vehicle_pitch_rad' = pitch
  /\ receive_event' = "attitude"
  /\ camera_params' = [s \in DOMAIN camera_params |-> [camera_params[s] EXCEPT !.angle_offset = @ + pitch * DegUnits]]
  /\ UNCHANGED <<streamVars, svcVars, heartbeat_event, mavThreads, camera_thread, obstacle_thread, mav_time_to_exit, obstacle_queue, last_obstacle_distance_sent_ms, pushes, evicted, camHist, sendHist, config_call, calls>>
\* one iteration of receive_data in which an ATTITUDE message arrived:
\* its pitch is stored, and nothing else is done with it
ReceiveData(pitch) ==
  /\ receive_thread = "running"
  /\ ~mav_time_to_exit
  /\ vehicle_pitch_rad' = pitch
  /\ receive_event' = "attitude"
  /\ UNCHANGED <<streamVars, svcVars, heartbeat_event, mavThreads, camera_thread, obstacle_thread, mav_time_to_exit, obstacle_queue, camera_params, last_obstacle_distance_sent_ms, pushes, evicted, camHist, sendHist, config_call, calls>>

\* one iteration of receive_data in which recv_match raised: the exception
\* is logged and the loop goes on
ReceiveDataFails ==
  /\ receive_thread = "running"
  /\ ~mav_time_to_exit
  /\ receive_event' = "failed"
  /\ UNCHANGED <<svcVars, streamVars, vehicle_pitch_rad, heartbeat_event, mavThreads, camera_thread, obstacle_thread, mav_time_to_exit, obstacle_queue, camera_params, last_obstacle_distance_sent_ms, pushes, evicted, camHist, sendHist, config_call, calls>>

HeartbeatThreadAfterUncaught(sent) == IF sent THEN "running" ELSE "done"
\* the try/except of send_heartbeat catches every exception of heartbeat_send
HeartbeatThreadAfter(sent) == "running"

\* one iteration of send_heartbeat: heartbeat_send goes through or raises,
\* then the thread sleeps for a second
SendHeartbeat ==
  /\ heartbeat_thread = "running"
  /\ ~mav_time_to_exit
  /\ \E sent \in BOOLEAN :
       /\ heartbeat_event' = [kind |-> IF sent THEN "sent" ELSE "send_failed", tick |-> 1 - heartbeat_event.tick]
       /\ heartbeat_thread' = HeartbeatThreadAfter(sent)
  /\ UNCHANGED <<svcVars, streamVars, vehicle_pitch_rad, receive_event, receive_thread, conn, camera_thread, obstacle_thread, mav_time_to_exit, obstacle_queue, camera_params, last_obstacle_distance_sent_ms, pushes, evicted, camHist, sendHist, config_call, calls>>

(* -------------------- ManagedCamera.camera_reader ---------------------- *)
\* what one iteration of the reader loop can run into: wait_for_frames (or
\* reading the depth frame) raises; the filter chain, get_data or
\* distances_from_depth_image raises inside _process_depth_frame (one except
\* clause serves all three); the sample is appended; the colorizer raises
\* after the sample was appended
ReaderOutcomes == {"wait_failed", "process_failed", "pushed", "colorize_failed"}
AppendingOutcomesEarly == {"process_failed", "pushed", "colorize_failed"}
\* the outcomes in which obstacle_queue.append was reached
AppendingOutcomes == {"pushed", "colorize_failed"}

\* the run of consecutive wait_for_frames failures a camera is in, or has
\* just left, after an iteration that ended as kind
FailRun(c, kind) ==
  IF kind = "wait_failed" THEN (IF cam_event[c] = "wait_failed" THEN wait_fails[c] + 1 ELSE 1)
  ELSE IF cam_event[c] = "wait_failed" THEN wait_fails[c] ELSE 0

ReaderThreadAfterUncaught(kind) == IF kind = "wait_failed" THEN "done" ELSE "running"
\* the try/except of camera_reader and of _process_depth_frame catch every
\* exception of an iteration, so the loop goes on
ReaderThreadAfter(kind) == "running"

\* one iteration of the while loop of camera_reader, _process_depth_frame
\* included; Outcomes, Stamps and DistSet are what the device delivers, and
\* at most maxfails consecutive waits fail
CameraReaderStep(c, maxfails, Outcomes, Stamps, DistSet) ==
  /\ camera_thread[c] = "running"
  /\ ~cam_time_to_exit[c]
  /\ \E kind \in Outcomes :
       /\ FailRun(c, kind) <= maxfails
       /\ kind \in AppendingOutcomes => ~ExtractRaises(depth_shape[c])
       /\ cam_event' = [cam_event EXCEPT ![c] = kind]
       /\ wait_fails' = [wait_fails EXCEPT ![c] = FailRun(c, kind)]
       /\ camera_thread' = [camera_thread EXCEPT ![c] = ReaderThreadAfter(kind)]
       /\ IF kind \in AppendingOutcomes
          THEN \E timestamp \in Stamps, d \in DistSet :
                 /\ clock' = [clock EXCEPT ![c] = timestamp]
                 /\ cam_distances' = [cam_distances EXCEPT ![c] = d]
                 /\ IF mavlink_integration[c]
                    THEN QueueAppend(d, SensingTime(timestamp), sensor_type(c))
                    ELSE UNCHANGED <<obstacle_queue, pushes, evicted>>
          ELSE UNCHANGED <<obstacle_queue, pushes, evicted, clock, cam_distances>>
  /\ UNCHANGED <<svcVars, streamVars, vehicle_pitch_rad, mavHist, mavThreads, obstacle_thread, mav_time_to_exit, camera_params, last_obstacle_distance_sent_ms, sendHist, config_call, calls>>

\* frames of a device carry increasing timestamps
CameraReader(c) == CameraReaderStep(c, MaxFails, ReaderOutcomes, (clock[c] + 1)..MaxClock, Dists)

\* the distances of frame n of a camera in a burst: near and far obstacles
\* take turns, the two cameras out of step
BurstDistances(c, n) == IF (n + sensor_type(c)) % 2 = 1 THEN "near" ELSE "far"

\* a burst: every frame is delivered and processed, the device clock
\* advances by one millisecond per frame
BurstReader(c) == CameraReaderStep(c, 0, {"pushed"}, {clock[c] + 1} \cap (1..MaxBurst), {BurstDistances(c, clock[c] + 1)})

\* the frames of a camera over the life of the service: a wait may fail,
\* the device clock advances by one millisecond per frame
LifeReader(c) == CameraReaderStep(c, 1, {"wait_failed", "pushed"}, {clock[c] + 1} \cap (1..MaxLife), {"near"})

\* a reader whose wait or whose processing may fail, for at most MaxClock frames
FailingReader(c) == CameraReaderStep(c, 1, {"wait_failed", "process_failed", "pushed"}, {clock[c] + 1} \cap (1..MaxClock), {"near"})

\* a reader whose device may deliver a frame with the timestamp of the
\* frame before; every frame is processed, at most MaxLife + 1 of them
RepeatingReader(c) ==
  /\ DictGet(pushes, sensor_type(c), 0) <= MaxLife
  /\ CameraReaderStep(c, 0, {"pushed"}, {clock[c], clock[c] + 1} \cap (1..MaxLife), {"near"})

(* --------------------------- StreamFactory ----------------------------- *)
\* what the video stream leaves alone
pipelineVars == <<svcVars, vehicle_pitch_rad, mavHist, mavThreads, camera_thread, obstacle_thread, mav_time_to_exit, obstacle_queue, camera_params, last_obstacle_distance_sent_ms, pushes, evicted, camHist, sendHist, config_call, calls>>

\* get_from_buffer: color_buffer.pop() takes the item at the right end, the
\* one appended last
get_from_buffer(q) == [item |-> q[Len(q)], rest |-> SubSeq(q, 1, Len(q) - 1)]

\* add_to_buffer(frame), called by a reader for every frame it streams;
\* frames are numbered in the order of capture
add_to_buffer ==
  /\ captured < MaxFrames
  /\ captured' = captured + 1
  /\ color_buffer' = DequeAppend(color_buffer, captured + 1, StreamBufferLen)
  /\ UNCHANGED <<last_frame, number_frames, pipelineVars>>

\* on_need_data: the frame taken from the buffer is pushed to the stream and
\* kept as last_frame; with an empty buffer (IndexError) last_frame is pushed
on_need_data ==
  /\ number_frames < MaxFrames
  /\ number_frames' = number_frames + 1
  /\ IF color_buffer = <<>>
     THEN UNCHANGED <<color_buffer, last_frame>>
     ELSE /\ color_buffer' = get_from_buffer(color_buffer).rest
          /\ last_frame' = get_from_buffer(color_buffer).item
  /\ UNCHANGED <<captured, pipelineVars>>

(* ------------------- callers of a MavlinkIntegration ------------------- *)
Geometries == {CameraGeometry(c, h) : c \in CameraNames, h \in Hfovs}

\* MavlinkIntegration.start() called on its own
MavStart ==
  /\ obstacle_thread = "created"
  /\ MavlinkStart
  /\ UNCHANGED <<svcVars, streamVars, vehicle_pitch_rad, mavHist, conn, camera_thread, mav_time_to_exit, obstacle_queue, camera_params, last_obstacle_distance_sent_ms, pushes, evicted, camHist, sendHist, config_call, calls>>

\* configure_sensor called with any sensor id and geometry
CallConfigureSensor ==
  /\ calls < MaxCalls
  /\ calls' = calls + 1
  /\ \E s \in SensorIds, g \in Geometries :
       /\ ConfigureSensor(s, min_depth_cm, max_depth_cm, g.angle_offset, g.increment_f, FRONT_CAM_FRAME)
       /\ NoteConfigureCall(s, min_depth_cm, max_depth_cm, g.angle_offset, g.increment_f, FRONT_CAM_FRAME)
  /\ UNCHANGED <<svcVars, streamVars, vehicle_pitch_rad, mavHist, mavThreads, camera_thread, obstacle_thread, mav_time_to_exit, obstacle_queue, pushes, evicted, camHist, sendHist>>

\* obstacle_queue.append called with any sample
CallAppend ==
  /\ calls < MaxCalls
  /\ calls' = calls + 1
  /\ \E s \in SensorIds, timestamp \in 0..MaxTime, d \in Dists :
       QueueAppend(d, SensingTime(timestamp), s)
  /\ UNCHANGED <<svcVars, streamVars, vehicle_pitch_rad, mavHist, mavThreads, camera_thread, obstacle_thread, mav_time_to_exit, camera_params, last_obstacle_distance_sent_ms, camHist, sendHist, config_call>>

(* --------------------- callers of a ManagedCamera ---------------------- *)
\* vehicle pitch angles a caller hands to find_obstacle_line_height, in degrees
Pitches == {0 - 180, 0 - 58, 0 - 30, 0, 30, 58, 180}
\* raw depth values (depth units of 1 mm)
RawValues == {0, 100, 101, 1006, 7999, 8000, 65535}
\* depth matrices: uniform ones, and ones with a single nearer or farther
\* pixel (0 is what the device delivers for a pixel without depth data)
DepthMats == {[base |-> v, row |-> 0, col |-> 0, val |-> v] : v \in RawValues}
             \cup {[base |-> 3000, row |-> 86, col |-> 8, val |-> v] : v \in {0, 100, 1006, 8000}}
             \cup {[base |-> 3000, row |-> 86, col |-> col, val |-> 1006] : col \in {568, 631}}

\* what a direct call on a camera object leaves alone
callFrame == <<streamVars, vehicle_pitch_rad, mavHist, cameras, main_pc, main_i, active_cameras, pipe, geometry, obstacle_line_height_ratio, obstacle_line_thickness_pixel, mavlink_integration, cam_time_to_exit, time_to_exit, start_ret, mavThreads, camera_thread, obstacle_thread, mav_time_to_exit, obstacle_queue, camera_params, last_obstacle_distance_sent_ms, pushes, evicted, camHist, sendHist, config_call, calls>>

\* camera.find_obstacle_line_height(vehicle_pitch_rad): stores the row and returns it
CallFindObstacleLineHeight(c, vehicle_pitch) ==
  LET known == depth_shape[c].vfov_set
      h == find_obstacle_line_height(obstacle_line_height_ratio, vehicle_pitch, known, IF known THEN depth_shape[c].depth_vfov_deg ELSE 0)
  IN /\ depth_shape' = [depth_shape EXCEPT ![c].line_set = TRUE, ![c].obstacle_line_height = h]
     /\ ret' = [fn |-> "find_obstacle_line_height", camera |-> c, arg |-> vehicle_pitch, raised |-> FALSE, value |-> h]
     /\ UNCHANGED callFrame

\* camera.configure_depth_shape(): step is assigned first; with
\* obstacle_line_height still None the sum at line 395 raises TypeError
CallConfigureDepthShape(c) ==
  /\ IF depth_shape[c].line_set
     THEN LET sh == configure_depth_shape(depth_shape[c].obstacle_line_height, obstacle_line_thickness_pixel)
          IN /\ depth_shape' = [depth_shape EXCEPT ![c].shape_set = TRUE, ![c].step = sh.step, ![c].center_pixel = sh.center_pixel,
                                                   ![c].upper_pixel = sh.upper_pixel, ![c].lower_pixel = sh.lower_pixel]
             /\ ret' = [fn |-> "configure_depth_shape", camera |-> c, arg |-> depth_shape[c].obstacle_line_height, raised |-> FALSE, value |-> sh]
     ELSE /\ depth_shape' = [depth_shape EXCEPT ![c].step = DEPTH_WIDTH \div distances_array_length]
          /\ ret' = [fn |-> "configure_depth_shape", camera |-> c, arg |-> 0, raised |-> TRUE, value |-> 0]
  /\ UNCHANGED callFrame

\* self.distances of a camera that has processed no frame
InitialDistances == [i \in 0 .. (distances_array_length - 1) |-> max_depth_cm + 1]
\* the array a frame with everything 3 m away has left
EarlierDistances == [i \in 0 .. (distances_array_length - 1) |-> 300]
\* arrays a caller hands in to be written
WorkingArrays == {InitialDistances, EarlierDistances}

\* camera.distances_from_depth_image(depth_mat, distances)
CallDistancesFromDepthImage(c, depth_mat, distances) ==
  /\ ret' = IF ExtractRaises(depth_shape[c])
            THEN [fn |-> "distances_from_depth_image", camera |-> c, arg |-> depth_mat, depth_scale |-> depth_shape[c].depth_scale, self |-> depth_shape[c], distances |-> distances, raised |-> TRUE, value |-> 0]
            ELSE [fn |-> "distances_from_depth_image", camera |-> c, arg |-> depth_mat, depth_scale |-> depth_shape[c].depth_scale, self |-> depth_shape[c], distances |-> distances, raised |-> FALSE, value |-> distances_from_depth_image(depth_mat, distances, depth_shape[c])]
  /\ UNCHANGED <<depth_shape, callFrame>>

(* --------------------------- specifications ---------------------------- *)
Next ==
  \/ ServiceStart
  \/ DiscoverCamera
  \/ StartProcessing
  \/ \E c \in CameraNames : CameraReader(c)
  \/ SendObstacles

Spec == Init /\ [][Next]_vars

InitBurst == Init /\ cameras = <<"front", "back">>

NextBurst ==
  \/ ServiceStart
  \/ DiscoverCamera
  \/ StartProcessing
  \/ \E c \in CameraNames : BurstReader(c)
  \/ SendObstacles

SpecBurst == InitBurst /\ [][NextBurst]_vars

InitMav == Init /\ cameras = <<>>

NextMav ==
  \/ MavStart
  \/ CallConfigureSensor
  \/ CallAppend
  \/ SendObstacles

SpecMav == InitMav /\ [][NextMav]_vars

\* the service started with any scan-line configuration
InitCfg == \E ratio \in Ratios, thickness \in Thicknesses : InitWith(ratio, thickness)

NextCfg ==
  \/ ServiceStart
  \/ DiscoverCamera
  \/ StartProcessing
  \/ \E c \in CameraNames : LifeReader(c)
  \/ SendObstacles

SpecCfg == InitCfg /\ [][NextCfg]_vars

\* the service from start() to the end of stop()
NextStop ==
  \/ ServiceStart
  \/ DiscoverCameraAny
  \/ StartProcessing
  \/ \E c \in CameraNames : LifeReader(c)
  \/ SendObstacles
  \/ ExitSignal
  \/ StopProcessingBegin
  \/ StopProcessingEnd
  \/ MavlinkStopBegin
  \/ MavlinkStopEnd
  \/ \E c \in CameraNames : CameraReaderExit(c)
  \/ SendObstaclesExit
  \/ SendHeartbeatExit
  \/ ReceiveDataExit

\* every thread gets to run: a thread whose loop condition is false leaves
\* the loop, and the main thread goes on through stop() when its join returns
FairStop ==
  /\ WF_vars(StopProcessingBegin)
  /\ WF_vars(StopProcessingEnd)
  /\ WF_vars(MavlinkStopBegin)
  /\ WF_vars(MavlinkStopEnd)
  /\ \A c \in CameraNames : WF_vars(CameraReaderExit(c))
  /\ WF_vars(SendObstaclesExit)
  /\ WF_vars(SendHeartbeatExit)
  /\ WF_vars(ReceiveDataExit)

SpecStop == Init /\ [][NextStop]_vars /\ FairStop

\* the service from start() to the end of stop(), with the heartbeat loop and
\* with the iterations that are under way when the exit flag is set
NextExit ==
  \/ ServiceStart
  \/ DiscoverCamera
  \/ StartProcessing
  \/ \E c \in CameraNames : LifeReader(c)
  \/ SendObstacles
  \/ SendHeartbeat
  \/ ExitSignal
  \/ StopProcessingBegin
  \/ StopProcessingEnd
  \/ MavlinkStopBegin
  \/ MavlinkStopEnd
  \/ \E c \in CameraNames : CameraReaderExit(c)
  \/ SendObstaclesExit
  \/ SendObstaclesInFlight
  \/ SendHeartbeatExit
  \/ SendHeartbeatInFlight
  \/ ReceiveDataExit

SpecExit == Init /\ [][NextExit]_vars /\ FairStop

\* a video stream: frames come in from a reader, the streaming side asks
\* for buffers at its own pace
NextStream ==
  \/ add_to_buffer
  \/ on_need_data

SpecStream == Init /\ [][NextStream]_vars

\* a service with one camera enabled and a thin scan line
FnThicknesses == {0, 1, 10}
InitFn == \E ratio \in Ratios, thickness \in FnThicknesses : InitWith(ratio, thickness) /\ Len(cameras) = 1

\* the cameras of the service's list
Listed == {cameras[i] : i \in 1..Len(cameras)}

\* the methods of the camera object are called directly, before and after
\* the service connected it
NextFn ==
  \/ ServiceStart
  \/ DiscoverCameraAny
  \/ \E c \in Listed, vehicle_pitch \in Pitches : CallFindObstacleLineHeight(c, vehicle_pitch)
  \/ \E c \in Listed : CallConfigureDepthShape(c)
  \/ \E c \in Listed, depth_mat \in DepthMats, distances \in WorkingArrays : CallDistancesFromDepthImage(c, depth_mat, distances)

SpecFn == InitFn /\ [][NextFn]_vars

\* the service streaming while ATTITUDE messages come in
NextPitch ==
  \/ ServiceStart
  \/ DiscoverCamera
  \/ StartProcessing
  \/ \E c \in CameraNames : RepeatingReader(c)
  \/ SendObstacles
  \/ \E pitch \in AttitudePitches : ReceiveData(pitch)

\* the main thread, the readers and the sender get to run; no ATTITUDE
\* message has to arrive
FairPitch ==
  /\ WF_vars(ServiceStart)
  /\ WF_vars(DiscoverCamera)
  /\ WF_vars(StartProcessing)
  /\ \A c \in CameraNames : WF_vars(RepeatingReader(c))
  /\ WF_vars(SendObstacles)

SpecPitch == Init /\ [][NextPitch]_vars /\ FairPitch

\* the service streaming, no shutdown requested
NextLive ==
  \/ ServiceStart
  \/ DiscoverCamera
  \/ StartProcessing
  \/ \E c \in CameraNames : LifeReader(c)
  \/ SendObstacles

\* the main thread, the readers and the sender get to run
FairLive ==
  /\ WF_vars(ServiceStart)
  /\ WF_vars(DiscoverCamera)
  /\ WF_vars(StartProcessing)
  /\ \A c \in CameraNames : WF_vars(LifeReader(c))
  /\ WF_vars(SendObstacles)

SpecLive == Init /\ [][NextLive]_vars /\ FairLive

\* the four kinds of loops running side by side, each with its failures
NextLoops ==
  \/ ServiceStart
  \/ DiscoverCamera
  \/ StartProcessing
  \/ \E c \in CameraNames : FailingReader(c)
  \/ SendObstacles
  \/ SendHeartbeat
  \/ ReceiveData(0)
  \/ ReceiveDataFails

\* the main thread and the heartbeat thread get to run
FairLoops ==
  /\ WF_vars(ServiceStart)
  /\ WF_vars(DiscoverCamera)
  /\ WF_vars(StartProcessing)
  /\ WF_vars(SendHeartbeat)

SpecLoops == Init /\ [][NextLoops]_vars /\ FairLoops

(* ------------------------------- claims -------------------------------- *)
\* a step in which the sender popped a sample
PopStep == pops' = pops + 1
TotalPushes == DictGet(pushes, FRONT_CAM_SENSOR_TYPE, 0) + DictGet(pushes, BACK_CAM_SENSOR_TYPE, 0)
\* the entry of sensor o is the same (present or absent) in dictionaries d and e
SameEntry(d, e, o) == (o \in DOMAIN d <=> o \in DOMAIN e) /\ (o \in DOMAIN d => d[o] = e[o])

\* C1: the obstacle queue never holds more than 10 samples, and an append by
\* a camera reader always goes through: the new sample becomes the last entry,
\* a full queue loses exactly its oldest entry and keeps the others in order,
\* and the reader thread stays as it was.
C1_QueueBoundedDropOldest ==
  [][/\ Len(obstacle_queue') <= 10
     /\ \A s \in SensorIds :
          DictGet(pushes', s, 0) = DictGet(pushes, s, 0) + 1 =>
            /\ Len(obstacle_queue') >= 1
            /\ obstacle_queue'[Len(obstacle_queue')].sensor_type = s
            /\ obstacle_queue'[Len(obstacle_queue')].seq = pushes'[s]
            /\ SubSeq(obstacle_queue', 1, Len(obstacle_queue') - 1) = (IF Len(obstacle_queue) = 10 THEN Tail(obstacle_queue) ELSE obstacle_queue)
            /\ camera_thread' = camera_thread]_vars

\* eleven samples were appended, none was popped, and the queue holds ten:
\* the second to the eleventh, in append order
W_C1_OverrunKeepsNewest ==
  /\ TotalPushes = 11
  /\ pops = 0
  /\ Len(obstacle_queue) = 10
  /\ obstacle_queue[1].seq = 2
  /\ obstacle_queue[1].sensor_type = FRONT_CAM_SENSOR_TYPE
  /\ DictGet(pushes, FRONT_CAM_SENSOR_TYPE, 0) = 6
  /\ \A i \in 1..9 : obstacle_queue[i].sensor_type = obstacle_queue[i + 1].sensor_type => obstacle_queue[i].seq + 1 = obstacle_queue[i + 1].seq

\* C2: for every sensor the samples the sender pops are popped in the order
\* of their appends and each was appended before: the append number of a popped
\* sample is larger than that of the sample popped before it for that sensor,
\* and the message emitted for it carries its timestamp.
C2_PerSensorOrder ==
  [][\A s \in SensorIds :
       /\ DictGet(last_popped', s, 0) # DictGet(last_popped, s, 0) =>
            /\ DictGet(last_popped', s, 0) > DictGet(last_popped, s, 0)
            /\ DictGet(last_popped', s, 0) <= DictGet(pushes, s, 0)
       /\ ~SameEntry(last_msg', last_msg, s) =>
            /\ last_msg'[s].time_usec = last_popped'[s] * 1000
            /\ last_popped'[s] # DictGet(last_popped, s, 0)]_vars

\* both cameras had samples popped after samples had been evicted
W_C2_PoppedAfterEviction ==
  /\ DictGet(last_popped, FRONT_CAM_SENSOR_TYPE, 0) >= 2
  /\ DictGet(last_popped, BACK_CAM_SENSOR_TYPE, 0) >= 2
  /\ TotalPushes > Len(obstacle_queue) + pops
  /\ pops >= 3

\* C3: once send_obstacle_distance_message has handled a sample (s, t) of a
\* configured sensor, last_sent[s] is t; and a sample whose timestamp equals
\* last_sent[s] emits nothing and leaves last_sent as it is. So of two calls
\* in a row with the same (s, t) the second is silent.
C3_DuplicateSuppressed ==
  [][PopStep =>
       LET x == Head(obstacle_queue)
           s == x.sensor_type
       IN s \in DOMAIN camera_params =>
            /\ DictGet(last_obstacle_distance_sent_ms', s, -1) = x.sensing_time
            /\ DictGet(last_obstacle_distance_sent_ms, s, 0) = x.sensing_time =>
                 /\ last_msg' = last_msg
                 /\ last_obstacle_distance_sent_ms' = last_obstacle_distance_sent_ms
                 /\ sender_event'.kind = "duplicate"]_vars

\* a message with a non-zero timestamp was emitted for a sensor, and the
\* next sample of that sensor, with the same timestamp, was dropped
W_C3_SecondCallSilent ==
  \E s \in SensorIds :
    /\ sender_event = [kind |-> "duplicate", sensor |-> s]
    /\ s \in DOMAIN last_msg
    /\ last_msg[s].time_usec = last_obstacle_distance_sent_ms[s]
    /\ last_obstacle_distance_sent_ms[s] # 0
    /\ DictGet(last_popped, s, 0) >= 2

\* C4: handling a sample of sensor s leaves camera_params, and the last_sent
\* entry and last message of every other sensor, as they were; and a sample
\* of a configured sensor s is handed to the transport exactly when its
\* timestamp differs from last_sent[s] (0 when there is no entry).
C4_SuppressionPerSensor ==
  [][PopStep =>
       LET x == Head(obstacle_queue)
           s == x.sensor_type
       IN /\ camera_params' = camera_params
          /\ \A o \in SensorIds \ {s} :
               /\ SameEntry(last_obstacle_distance_sent_ms', last_obstacle_distance_sent_ms, o)
               /\ SameEntry(last_msg', last_msg, o)
          /\ s \in DOMAIN camera_params =>
               (sender_event'.kind \in {"sent", "send_failed"} <=> x.sensing_time # DictGet(last_obstacle_distance_sent_ms, s, 0))]_vars

\* both sensors had a message emitted with the same non-zero timestamp
W_C4_SameStampBothEmitted ==
  /\ DOMAIN last_msg = SensorIds
  /\ last_msg[FRONT_CAM_SENSOR_TYPE].time_usec = last_msg[BACK_CAM_SENSOR_TYPE].time_usec
  /\ last_msg[FRONT_CAM_SENSOR_TYPE].time_usec # 0
  /\ last_obstacle_distance_sent_ms[FRONT_CAM_SENSOR_TYPE] = last_obstacle_distance_sent_ms[BACK_CAM_SENSOR_TYPE]

\* C5: a message the transport accepts carries the popped sample's timestamp,
\* sensor id and distances, increment 0, and the min/max distance, float
\* increment, angle offset and frame registered for that sensor id at that
\* moment; for the front camera the offset is -hfov/2, for the back camera
\* 180 - hfov/2, with the frame of that camera.
C5_SensorAttribution ==
  [][(PopStep /\ sender_event'.kind = "sent") =>
       LET x == Head(obstacle_queue)
           s == x.sensor_type
           p == camera_params[s]
           m == last_msg'[s]
       IN /\ m = [time_usec |-> x.sensing_time, sensor_type |-> s, distances |-> x.distances, increment |-> 0,
                  min_distance |-> p.min_depth_cm, max_distance |-> p.max_depth_cm, increment_f |-> p.increment_f,
                  angle_offset |-> p.angle_offset, frame |-> p.frame]
          /\ s = FRONT_CAM_SENSOR_TYPE => /\ 2 * m.angle_offset = 0 - geometry["front"].depth_hfov_deg * DegUnits
                                          /\ m.frame = FRONT_CAM_FRAME
          /\ s = BACK_CAM_SENSOR_TYPE => /\ 2 * m.angle_offset = 2 * 180 * DegUnits - geometry["back"].depth_hfov_deg * DegUnits
                                         /\ m.frame = BACK_CAM_FRAME]_vars

\* a front and a back message with different timestamps and the two offsets
W_C5_FrontAndBackMessages ==
  /\ DOMAIN last_msg = SensorIds
  /\ last_msg[FRONT_CAM_SENSOR_TYPE].time_usec # last_msg[BACK_CAM_SENSOR_TYPE].time_usec
  /\ last_msg[FRONT_CAM_SENSOR_TYPE].sensor_type = FRONT_CAM_SENSOR_TYPE
  /\ last_msg[BACK_CAM_SENSOR_TYPE].sensor_type = BACK_CAM_SENSOR_TYPE
  /\ 2 * last_msg[FRONT_CAM_SENSOR_TYPE].angle_offset = 0 - geometry["front"].depth_hfov_deg * DegUnits
  /\ 2 * last_msg[BACK_CAM_SENSOR_TYPE].angle_offset = 360 * DegUnits - geometry["back"].depth_hfov_deg * DegUnits

\* C6: a popped sample whose sensor id has no entry in camera_params emits
\* nothing and leaves camera_params, last_sent and the messages as they were
\* (no entry appears for that sensor); it is gone from the queue and the
\* sender thread keeps running.
C6_UnconfiguredDropped ==
  [][(PopStep /\ Head(obstacle_queue).sensor_type \notin DOMAIN camera_params) =>
       /\ sender_event'.kind = "unconfigured"
       /\ last_msg' = last_msg
       /\ camera_params' = camera_params
       /\ last_obstacle_distance_sent_ms' = last_obstacle_distance_sent_ms
       /\ obstacle_queue' = Tail(obstacle_queue)
       /\ obstacle_thread' = "running"
       /\ ~mav_time_to_exit']_vars

\* a sample of a sensor that is still unconfigured was popped, and the
\* sender went on to emit a later sample of the other sensor
W_C6_DroppedThenNextSent ==
  \E s \in SensorIds :
    /\ s \notin DOMAIN camera_params
    /\ s \notin DOMAIN last_obstacle_distance_sent_ms
    /\ DictGet(last_popped, s, 0) >= 1
    /\ sender_event.kind = "sent"
    /\ sender_event.sensor # s

\* C7: a configure_sensor call leaves camera_params[sensor] equal to the
\* geometry passed and last_sent[sensor] equal to 0, and the entries of every
\* other sensor in both dictionaries as they were.
C7_ConfigureSensor ==
  [][config_call'.n # config_call.n =>
       LET s == config_call'.sensor
       IN /\ s \in DOMAIN camera_params'
          /\ camera_params'[s] = config_call'.params
          /\ s \in DOMAIN last_obstacle_distance_sent_ms'
          /\ last_obstacle_distance_sent_ms'[s] = 0
          /\ \A o \in SensorIds \ {s} :
               /\ SameEntry(camera_params', camera_params, o)
               /\ SameEntry(last_obstacle_distance_sent_ms', last_obstacle_distance_sent_ms, o)]_vars

\* a sensor that had emitted a message with a non-zero timestamp under one
\* geometry was configured again with another geometry: last_sent is back
\* to 0 and the geometry is the new one
W_C7_Reconfigured ==
  \E s \in SensorIds :
    /\ config_call.sensor = s
    /\ config_call.n >= 2
    /\ last_obstacle_distance_sent_ms[s] = 0
    /\ s \in DOMAIN last_msg
    /\ last_msg[s].time_usec # 0
    /\ last_msg[s].angle_offset # camera_params[s].angle_offset

\* C8: when the transport raises for a sample, the sample is gone from the
\* queue, no message results, and the sender thread keeps running with its
\* exit flag unset; the sample popped next after a failure is handled by the
\* usual rule (emission is attempted exactly when its sensor is configured
\* and its timestamp differs from last_sent).
C8_TransportFailureAbsorbed ==
  [][PopStep =>
       LET x == Head(obstacle_queue)
           s == x.sensor_type
       IN /\ sender_event'.kind = "send_failed" =>
               /\ obstacle_thread' = "running"
               /\ ~mav_time_to_exit'
               /\ obstacle_queue' = Tail(obstacle_queue)
               /\ last_msg' = last_msg
          /\ sender_event.kind = "send_failed" =>
               /\ obstacle_thread = "running"
               /\ sender_event'.kind \in {"sent", "send_failed"} <=>
                    (s \in DOMAIN camera_params /\ x.sensing_time # DictGet(last_obstacle_distance_sent_ms, s, 0))]_vars

\* the emission for one sensor failed (last_sent moved, no message with that
\* timestamp), and the sample of the other sensor was emitted afterwards
W_C8_SentAfterFailure ==
  \E s \in SensorIds :
    /\ sender_event.kind = "sent"
    /\ sender_event.sensor # s
    /\ s \in DOMAIN last_obstacle_distance_sent_ms
    /\ last_obstacle_distance_sent_ms[s] # 0
    /\ s \notin DOMAIN last_msg
    /\ obstacle_thread = "running"

\* C9: a camera whose wait_for_frames has just failed, however many times in
\* a row, still has its reader thread running on a started pipeline with the
\* exit flag unset; and a frame that gets through is appended to the obstacle
\* queue with that camera's sensor id and its timestamp in microseconds,
\* whatever failures came before it.
C9_ReaderSurvivesWaitFailures ==
  [][\A c \in CameraNames :
       /\ cam_event'[c] = "wait_failed" =>
            /\ camera_thread'[c] = "running"
            /\ pipe'[c] = "started"
            /\ ~cam_time_to_exit'[c]
       /\ clock'[c] # clock[c] =>
            /\ camera_thread'[c] = "running"
            /\ Len(obstacle_queue') >= 1
            /\ obstacle_queue'[Len(obstacle_queue')].sensor_type = (IF c = "front" THEN 0 ELSE 1)
            /\ obstacle_queue'[Len(obstacle_queue')].sensing_time = clock'[c] * 1000
            /\ SubSeq(obstacle_queue', 1, Len(obstacle_queue') - 1) = (IF Len(obstacle_queue) = 10 THEN Tail(obstacle_queue) ELSE obstacle_queue)]_vars

\* three waits in a row failed and the very next iteration appended a sample
W_C9_PushAfterThreeFailures ==
  \E c \in CameraNames :
    /\ cam_event[c] = "pushed"
    /\ wait_fails[c] >= 3
    /\ camera_thread[c] = "running"
    /\ obstacle_queue # <<>>
    /\ obstacle_queue[Len(obstacle_queue)].sensor_type = (IF c = "front" THEN 0 ELSE 1)

\* C10: an iteration in which the filter chain, the depth-matrix read or the
\* distance extraction raised leaves the obstacle queue and the append counts
\* as they were, and the reader thread running.
C10_FailedFrameDropped ==
  [][\A c \in CameraNames :
       (cam_event'[c] = "process_failed" /\ cam_event[c] # "process_failed") =>
         /\ obstacle_queue' = obstacle_queue
         /\ pushes' = pushes
         /\ clock' = clock
         /\ camera_thread'[c] = "running"
         /\ ~cam_time_to_exit'[c]]_vars

\* a camera that has appended a sample has a frame fail in processing while
\* the sample is still queued
W_C10_FrameFailedQueueKept ==
  \E c \in CameraNames :
    /\ cam_event[c] = "process_failed"
    /\ camera_thread[c] = "running"
    /\ clock[c] >= 1
    /\ \E i \in 1..Len(obstacle_queue) : obstacle_queue[i].sensor_type = (IF c = "front" THEN 0 ELSE 1)

(* --------------------- claims on start and stop ------------------------ *)
\* the discovery loop of start() is over
Discovered == main_pc \notin {"init", "discover"}
\* start() is over: it returned, or raised after calling stop()
StartOver == main_pc \notin {"init", "discover", "start_processing"}
\* connect() of the camera succeeded
Connected(c) == pipe[c] \in {"started", "stopped"}

\* C11: a listed camera that was not found or whose connect failed is never
\* registered, gets no reader thread and pushes nothing; every camera whose
\* connect succeeded is registered and has had its reader thread started once
\* start() is over.
C11_ExcludedAndOthersStream ==
  \A c \in CameraNames :
    /\ (Discovered /\ ~Connected(c)) =>
         /\ sensor_type(c) \notin DOMAIN camera_params
         /\ camera_thread[c] = "None"
         /\ DictGet(pushes, sensor_type(c), 0) = 0
    /\ (StartOver /\ Connected(c)) =>
         /\ sensor_type(c) \in DOMAIN camera_params
         /\ camera_thread[c] # "None"

\* C12: when discovery ends with no active camera the service exits: the
\* main thread does not go to sleep in __main__ with the telemetry threads
\* running.
C12_ExitsOnZeroCameras ==
  (Discovered /\ cameras = <<>>) =>
    ~(main_pc = "returned" /\ (heartbeat_thread = "running" \/ receive_thread = "running" \/ obstacle_thread = "running"))

\* the scan-line configuration the service was constructed with is valid
ValidScanLine ==
  /\ 0 <= obstacle_line_height_ratio /\ obstacle_line_height_ratio <= RowUnits
  /\ 1 <= obstacle_line_thickness_pixel /\ obstacle_line_thickness_pixel <= DEPTH_HEIGHT

C14_StopTerminates ==
  /\ time_to_exit ~> (/\ main_pc = "exited"
                      /\ \A c \in CameraNames : camera_thread[c] # "running"
                      /\ obstacle_thread = "done"
                      /\ heartbeat_thread = "done"
                      /\ receive_thread = "done")
  /\ [][/\ \A c \in CameraNames : (camera_thread[c] = "running" /\ camera_thread'[c] # "running") => cam_time_to_exit[c]
        /\ (obstacle_thread = "running" /\ obstacle_thread' # "running") => mav_time_to_exit
        /\ (heartbeat_thread = "running" /\ heartbeat_thread' # "running") => mav_time_to_exit
        /\ (receive_thread = "running" /\ receive_thread' # "running") => mav_time_to_exit]_vars

\* stop() has returned on a service whose two cameras were streaming and
\* had pushed samples: all four kinds of thread are done
W_C14_StoppedAfterStreaming ==
  /\ main_pc = "exited"
  /\ camera_thread = [c \in CameraNames |-> "done"]
  /\ DictGet(pushes, FRONT_CAM_SENSOR_TYPE, 0) >= 1
  /\ DictGet(pushes, BACK_CAM_SENSOR_TYPE, 0) >= 1
  /\ obstacle_thread = "done" /\ heartbeat_thread = "done" /\ receive_thread = "done"
  /\ conn = "closed"

\* C15 as stated: no capture pipeline is stopped while a reader thread of
\* any camera, or the sender, heartbeat or attitude thread, is still running.
C15_PipelinesReleasedLast ==
  \A c \in CameraNames :
    pipe[c] = "stopped" =>
      /\ \A d \in CameraNames : camera_thread[d] # "running"
      /\ obstacle_thread # "running"
      /\ heartbeat_thread # "running"
      /\ receive_thread # "running"

\* C15 as amended: stop() takes the cameras in list order, for each one
\* joining its reader thread and then stopping its pipeline; the sender,
\* heartbeat and attitude threads are told to stop only after the pipeline of
\* the last camera was stopped. No pipeline is stopped while the reader of
\* its own camera is running.
C15_StopOrder ==
  /\ \A c \in CameraNames : pipe[c] = "stopped" => camera_thread[c] # "running"
  /\ \A i \in 1..Len(cameras) : \A j \in 1..Len(cameras) :
       (i < j /\ pipe[cameras[j]] = "stopped") => pipe[cameras[i]] = "stopped"
  /\ mav_time_to_exit =>
       \A i \in 1..Len(cameras) : pipe[cameras[i]] = "stopped" /\ camera_thread[cameras[i]] # "running"
  /\ (obstacle_thread = "done" \/ heartbeat_thread = "done" \/ receive_thread = "done") => mav_time_to_exit

\* the pipeline of the front camera was stopped while the reader of the
\* back camera, which has pushed, and the three MAVLink threads still run
W_C15_FrontReleasedBackStreaming ==
  /\ pipe["front"] = "stopped"
  /\ camera_thread["front"] = "done"
  /\ camera_thread["back"] = "running"
  /\ DictGet(pushes, BACK_CAM_SENSOR_TYPE, 0) >= 1
  /\ obstacle_thread = "running" /\ heartbeat_thread = "running" /\ receive_thread = "running"
  /\ ~mav_time_to_exit

\* where a camera is on Disconnected (0), Connected (1), Streaming (2),
\* Stopping (3), Stopped (4)
CamRank(c) ==
  IF pipe[c] = "stopped" THEN 4
  ELSE IF cam_time_to_exit[c] THEN 3
  ELSE IF camera_thread[c] = "running" THEN 2
  ELSE IF pipe[c] = "started" THEN 1
  ELSE 0

PushedKeys == UNION {{<<s, n>> : n \in 1..DictGet(pushes, s, 0)} : s \in SensorIds}
\* how often the sender popped sample k
Consumed(k) == DictGet(consumed, k, 0)

\* C17 as stated: every sample a reader appended is popped exactly once, so
\* a sample that is no longer in the queue was popped, and popped once.
C17_ConsumedExactlyOnce ==
  \A k \in PushedKeys :
    /\ Consumed(k) <= 1
    /\ k \notin Keys(obstacle_queue) => Consumed(k) = 1

\* C17 as amended: a sample is popped at most once and not while it is
\* queued; a sample that is no longer in the queue was either popped once or
\* pushed out of the full queue by a later append, never both, and a sample
\* pushed out is never popped.
C17_ConsumedAtMostOnce ==
  \A k \in PushedKeys :
    /\ Consumed(k) <= 1
    /\ k \in Keys(obstacle_queue) => (Consumed(k) = 0 /\ k \notin evicted)
    /\ k \notin Keys(obstacle_queue) => ((Consumed(k) = 1) # (k \in evicted))
    /\ k \in evicted => Consumed(k) = 0

\* samples of both sensors were popped, a sample was pushed out unpopped and
\* a sample appended after it was popped
W_C17_PoppedAndEvicted ==
  /\ \E k \in evicted : \E j \in PushedKeys : j[1] = k[1] /\ j[2] > k[2] /\ Consumed(j) = 1
  /\ \A s \in SensorIds : \E k \in PushedKeys : k[1] = s /\ Consumed(k) = 1
  /\ Len(obstacle_queue) >= 1

\* the camera that feeds sensor id s
CameraOfSensor(s) == IF s = FRONT_CAM_SENSOR_TYPE THEN "front" ELSE "back"
\* the sample a reader built from frame n of the burst for sensor id s
BurstSample(s, n) == Sample(BurstDistances(CameraOfSensor(s), n), SensingTime(n), s, n)
\* the samples of sensor id s among the keys K
OfSensor(K, s) == {k \in K : k[1] = s}

\* C18: with two reader threads appending and the sender popping in any
\* interleaving, a popped sample is the oldest queued one and is exactly a
\* sample some reader appended (distances, timestamp and sensor id of one
\* frame), it was not popped before, an append pushes out nothing but the
\* oldest entry of the full queue, and at all times every appended sample is
\* in exactly one place: queued, popped or pushed out.
C18_MultiProducerSafety ==
  [][/\ PopStep =>
          LET x == Head(obstacle_queue)
              k == <<x.sensor_type, x.seq>>
          IN /\ k \in PushedKeys
             /\ x = BurstSample(x.sensor_type, x.seq)
             /\ Consumed(k) = 0
             /\ DictGet(consumed', k, 0) = 1
             /\ obstacle_queue' = Tail(obstacle_queue)
     /\ evicted' # evicted =>
          /\ Len(obstacle_queue) = 10
          /\ evicted' = evicted \cup {<<Head(obstacle_queue).sensor_type, Head(obstacle_queue).seq>>}
     /\ Len(obstacle_queue') = Cardinality(Keys(obstacle_queue'))
     /\ \A i \in 1..Len(obstacle_queue') : obstacle_queue'[i] = BurstSample(obstacle_queue'[i].sensor_type, obstacle_queue'[i].seq)
     /\ \A s \in SensorIds :
          /\ DictGet(pushes', s, 0) = Cardinality(OfSensor(Keys(obstacle_queue'), s)) + Cardinality(OfSensor(DOMAIN consumed', s)) + Cardinality(OfSensor(evicted', s))
          /\ OfSensor(Keys(obstacle_queue'), s) \cap OfSensor(DOMAIN consumed', s) = {}
          /\ OfSensor(evicted', s) \cap OfSensor(DOMAIN consumed', s) = {}]_vars

\* the two readers appended in turns (the queue holds samples of both sensors
\* next to each other), samples of both sensors were popped and samples of both
\* sensors were pushed out
W_C18_InterleavedPushPopEvict ==
  /\ \A s \in SensorIds : OfSensor(DOMAIN consumed, s) # {} /\ OfSensor(evicted, s) # {}
  /\ Len(obstacle_queue) >= 4
  /\ \A i \in 1..3 : obstacle_queue[i].sensor_type # obstacle_queue[i + 1].sensor_type

(* ------------------- claims on the scan line and the distances --------- *)
\* C19: with a scan-line ratio between 0 and 1, whatever the vehicle pitch
\* and whether or not the vertical field of view is known, the row
\* find_obstacle_line_height returns, and the row a camera stores as
\* obstacle_line_height, lies between 0 and DEPTH_HEIGHT.
C19_ScanLineWithinImage ==
  (obstacle_line_height_ratio >= 0 /\ obstacle_line_height_ratio <= RowUnits) =>
    /\ ret.fn = "find_obstacle_line_height" => (ret.value >= 0 /\ ret.value <= DEPTH_HEIGHT * RowUnits)
    /\ \A c \in CameraNames : depth_shape[c].line_set => (depth_shape[c].obstacle_line_height >= 0 /\ depth_shape[c].obstacle_line_height <= DEPTH_HEIGHT * RowUnits)

\* a connected camera with the scan line at 18 % was asked for the row at a
\* pitch of 58 degrees: the unclamped row lies below the image and the row
\* returned is the last one
W_C19_ClampedAtBottomRow ==
  /\ obstacle_line_height_ratio = 180
  /\ ret.fn = "find_obstacle_line_height"
  /\ ret.arg = 58
  /\ depth_shape[ret.camera].vfov_set
  /\ ret.value = DEPTH_HEIGHT * RowUnits

\* round() of a distance given in micrometres to whole centimetres, halves to even
RoundCm(dist_um) ==
  LET q == dist_um \div 10000
      r == dist_um % 10000
  IN IF r > 5000 \/ (r = 5000 /\ q % 2 = 1) THEN q + 1 ELSE q

\* C20: for a depth matrix with the same raw value v in every pixel, all 72
\* entries distances_from_depth_image returns are round(v * depth_scale * 100)
\* centimetres when v * depth_scale lies strictly between 0.1 m and 8.0 m, and
\* 65535 otherwise.
C20_UniformDepthRounded ==
  (ret.fn = "distances_from_depth_image" /\ ~ret.raised /\ ret.arg.val = ret.arg.base) =>
    LET dist_um == ret.arg.base * ret.depth_scale
    IN \A i \in 0 .. (distances_array_length - 1) :
         ret.value[i] = IF dist_um > min_depth_cm * 10000 /\ dist_um < max_depth_cm * 10000 THEN RoundCm(dist_um) ELSE NoObstacle

\* the last direct call of distances_from_depth_image returned an array
Extracted == ret.fn = "distances_from_depth_image" /\ ~ret.raised
\* the rows of the window that call read
WindowRows == ret.self.lower_pixel .. (ret.self.upper_pixel - 1)
\* the smallest distance (micrometres) in the window of the column read for entry i
ColumnMinUm(i) == MinPointInScan(ret.arg, ret.self, i * ret.self.step) * ret.self.depth_scale
Entries == 0 .. (distances_array_length - 1)

\* C21: an entry whose column has a minimum distance of exactly 0.1 m or
\* exactly 8.0 m is 65535.
C21_RangeExclusive ==
  Extracted =>
    \A i \in Entries :
      ColumnMinUm(i) \in {min_depth_cm * 10000, max_depth_cm * 10000} => ret.value[i] = NoObstacle

\* a matrix at 3 m with one pixel at exactly 0.1 m inside the window of
\* entry 1: entry 1 is 65535, its neighbours are 300 cm
W_C21_PixelAtMinimum ==
  /\ Extracted
  /\ ret.arg.base = 3000 /\ ret.arg.val = 100
  /\ ret.arg.row \in WindowRows
  /\ ColumnMinUm(1) = min_depth_cm * 10000
  /\ ret.value[1] = NoObstacle
  /\ ret.value[0] = 300 /\ ret.value[2] = 300

\* the distances (micrometres) strictly inside the depth range among the
\* window pixels of the column read for entry i
InRangeUm(i) ==
  {d \in {DepthAt(ret.arg, r, i * ret.self.step) * ret.self.depth_scale : r \in WindowRows} :
     d > min_depth_cm * 10000 /\ d < max_depth_cm * 10000}

\* C22: an entry whose window holds at least one pixel strictly inside the
\* depth range is not 65535 and is no larger than the distance of the nearest
\* such pixel.
C22_ProximityNotUnderReported ==
  Extracted =>
    \A i \in Entries :
      InRangeUm(i) # {} =>
        /\ ret.value[i] # NoObstacle
        /\ \A d \in InRangeUm(i) : ret.value[i] * 10000 <= d

\* the entry the code writes for a column whose nearest window pixel is dist_um away
EntryOf(dist_um) == IF dist_um > min_depth_cm * 10000 /\ dist_um < max_depth_cm * 10000 THEN Centimetres(dist_um) ELSE NoObstacle

\* C23: entry i is taken from column floor(i * DEPTH_WIDTH / 72) of the
\* depth matrix, also for a width of 640, which is no multiple of 72.
C23_ColumnOfEntry ==
  Extracted =>
    \A i \in Entries :
      ret.value[i] = EntryOf(MinPointInScan(ret.arg, ret.self, (i * DEPTH_WIDTH) \div distances_array_length) * ret.self.depth_scale)

\* the last direct call of configure_depth_shape went through, with a
\* thickness between 1 and DEPTH_HEIGHT
Configured ==
  /\ ret.fn = "configure_depth_shape" /\ ~ret.raised
  /\ obstacle_line_thickness_pixel >= 1 /\ obstacle_line_thickness_pixel <= DEPTH_HEIGHT
Clamp(x, lo, hi) == IF x < lo THEN lo ELSE IF x > hi THEN hi ELSE x
HalfThickness == (obstacle_line_thickness_pixel * RowUnits) \div 2

\* C24: for a centre row between 0 and DEPTH_HEIGHT and a thickness between
\* 1 and DEPTH_HEIGHT, configure_depth_shape stores as upper row the whole
\* part of centre + thickness/2 clamped to [1, DEPTH_HEIGHT] and as lower row
\* the whole part of centre - thickness/2 clamped to [0, DEPTH_HEIGHT - 1],
\* each on its own.
C24_RowBoundsClamped ==
  Configured =>
    /\ ret.arg >= 0 /\ ret.arg <= DEPTH_HEIGHT * RowUnits
    /\ ret.value.upper_pixel = Clamp(ret.arg + HalfThickness, RowUnits, DEPTH_HEIGHT * RowUnits) \div RowUnits
    /\ ret.value.lower_pixel = Clamp(ret.arg - HalfThickness, 0, (DEPTH_HEIGHT - 1) * RowUnits) \div RowUnits

\* the centre row is the first row and the thickness 10: the lower row is
\* clamped to 0 while the upper row is 5, so the window is 5 rows thick
W_C24_WindowCutAtTop ==
  /\ Configured
  /\ obstacle_line_thickness_pixel = 10
  /\ ret.arg = 0
  /\ ret.value.lower_pixel = 0
  /\ ret.value.upper_pixel = 5

\* the scan line is configured with a ratio between 0 and 1 and a thickness
\* between 1 and DEPTH_HEIGHT
ValidScanLineConfig ==
  /\ obstacle_line_height_ratio >= 0 /\ obstacle_line_height_ratio <= RowUnits
  /\ obstacle_line_thickness_pixel >= 1 /\ obstacle_line_thickness_pixel <= DEPTH_HEIGHT

\* C25 as stated: with a valid configuration the centre, upper and lower
\* rows of a camera all lie between 0 and DEPTH_HEIGHT - 1 and the upper row
\* is not smaller than the lower row.
C25_RowsInsideImage ==
  ValidScanLineConfig =>
    \A c \in CameraNames :
      depth_shape[c].shape_set =>
        /\ depth_shape[c].center_pixel \in 0 .. (DEPTH_HEIGHT - 1)
        /\ depth_shape[c].upper_pixel \in 0 .. (DEPTH_HEIGHT - 1)
        /\ depth_shape[c].lower_pixel \in 0 .. (DEPTH_HEIGHT - 1)
        /\ depth_shape[c].upper_pixel >= depth_shape[c].lower_pixel

\* C25 as amended: with a valid configuration the centre row lies between 0
\* and DEPTH_HEIGHT, the upper row (the first row past the window) between 1
\* and DEPTH_HEIGHT, the lower row between 0 and DEPTH_HEIGHT - 1, and the
\* upper row is larger than the lower row.
C25_RowsBounded ==
  ValidScanLineConfig =>
    \A c \in CameraNames :
      depth_shape[c].shape_set =>
        /\ depth_shape[c].center_pixel \in 0 .. DEPTH_HEIGHT
        /\ depth_shape[c].upper_pixel \in 1 .. DEPTH_HEIGHT
        /\ depth_shape[c].lower_pixel \in 0 .. (DEPTH_HEIGHT - 1)
        /\ depth_shape[c].upper_pixel > depth_shape[c].lower_pixel

\* a scan line at ratio 1 and thickness 10: centre and upper row are
\* DEPTH_HEIGHT, the window is the last five rows
W_C25_ScanLineAtLastRow ==
  /\ obstacle_line_height_ratio = RowUnits
  /\ obstacle_line_thickness_pixel = 10
  /\ \E c \in CameraNames :
       /\ depth_shape[c].shape_set
       /\ depth_shape[c].center_pixel = DEPTH_HEIGHT
       /\ depth_shape[c].upper_pixel = DEPTH_HEIGHT
       /\ depth_shape[c].lower_pixel = DEPTH_HEIGHT - 5

(* ----------------------- claims on the metadata ------------------------ *)
\* C26: a camera whose geometry was calculated has angle_offset = facing -
\* hfov/2 and increment_f = hfov / 72, so that angle_offset + 72 *
\* increment_f = facing + hfov/2; with facing 0 and hfov 80 the offset is -40
\* and the last entry ends at 40; the sender is given these very numbers.
\* Angles are in units of 1/DegUnits degree.
C26_AngularMetadata ==
  \A c \in CameraNames :
    geometry[c].calculated =>
      LET g == geometry[c]
          facing == camera_facing_angle_degree(c) * DegUnits
          hfov == g.depth_hfov_deg * DegUnits
      IN /\ 2 * g.angle_offset = 2 * facing - hfov
         /\ g.increment_f * distances_array_length = hfov
         /\ 2 * (g.angle_offset + g.increment_f * distances_array_length) = 2 * facing + hfov
         /\ (c = "front" /\ g.depth_hfov_deg = 80) =>
              /\ g.angle_offset = (0 - 40) * DegUnits
              /\ g.angle_offset + g.increment_f * distances_array_length = 40 * DegUnits
         /\ sensor_type(c) \in DOMAIN camera_params =>
              /\ camera_params[sensor_type(c)].angle_offset = g.angle_offset
              /\ camera_params[sensor_type(c)].increment_f = g.increment_f

\* both cameras are registered with the sender: the front one from -40 to 40
\* degrees, the back one from 140 to 220 degrees
W_C26_BothCamerasRegistered ==
  /\ FRONT_CAM_SENSOR_TYPE \in DOMAIN camera_params
  /\ BACK_CAM_SENSOR_TYPE \in DOMAIN camera_params
  /\ camera_params[FRONT_CAM_SENSOR_TYPE].angle_offset = (0 - 40) * DegUnits
  /\ camera_params[BACK_CAM_SENSOR_TYPE].angle_offset = 140 * DegUnits
  /\ camera_params[BACK_CAM_SENSOR_TYPE].angle_offset + distances_array_length * camera_params[BACK_CAM_SENSOR_TYPE].increment_f = 220 * DegUnits

\* C27: the messages emitted for one sensor carry strictly increasing
\* timestamps: a popped sample that is not newer than the last message
\* emitted for its sensor is not emitted.
C27_StaleSuppressed ==
  [][\A s \in SensorIds :
       (s \in DOMAIN last_msg /\ ~SameEntry(last_msg', last_msg, s)) =>
          last_msg'[s].time_usec > last_msg[s].time_usec]_vars

\* the reader thread of camera c is running
Streaming(c) == camera_thread[c] = "running"
\* the rows of camera c are those find_obstacle_line_height and
\* configure_depth_shape yield for a pitch of p degrees
RowsReflect(c, p) ==
  /\ depth_shape[c].shape_set
  /\ LET sh == configure_depth_shape(find_obstacle_line_height(obstacle_line_height_ratio, p, TRUE, depth_shape[c].depth_vfov_deg), obstacle_line_thickness_pixel)
     IN /\ depth_shape[c].center_pixel = sh.center_pixel
        /\ depth_shape[c].upper_pixel = sh.upper_pixel
        /\ depth_shape[c].lower_pixel = sh.lower_pixel

C29_ParamsImmutable ==
  [][/\ camera_params' # camera_params => config_call' # config_call
     /\ \A s \in DOMAIN camera_params : s \in DOMAIN camera_params' /\ camera_params'[s] = camera_params[s]]_vars

\* both sensors are registered, a pitch came in, and after messages were
\* emitted a duplicate was dropped for one sensor and a send failed for the other
W_C29_AfterDuplicateAndFailure ==
  /\ DOMAIN camera_params = SensorIds
  /\ vehicle_pitch_rad = 58
  /\ pops >= 3
  /\ \E s \in SensorIds : sender_event = [kind |-> "duplicate", sensor |-> s] /\ s \in DOMAIN last_msg
  /\ \E s \in SensorIds : DictGet(last_obstacle_distance_sent_ms, s, 0) # 0 /\ (s \notin DOMAIN last_msg \/ last_msg[s].time_usec # last_obstacle_distance_sent_ms[s])

\* C30: the distances of a queued sample stay what they were when it was
\* appended, whatever the reader writes into its own array afterwards, and
\* the message emitted for a sample carries the distances computed for the
\* frame of that sample.
C30_DistancesByValue ==
  [][/\ \A i \in 1..Len(obstacle_queue) : \A j \in 1..Len(obstacle_queue') :
          (obstacle_queue[i].sensor_type = obstacle_queue'[j].sensor_type /\ obstacle_queue[i].seq = obstacle_queue'[j].seq) =>
             DistancesOf(obstacle_queue'[j]) = DistancesOf(obstacle_queue[i])
     /\ \A i \in 1..Len(obstacle_queue') :
          DistancesOf(obstacle_queue'[i]) = BurstDistances(CameraOfSensor(obstacle_queue'[i].sensor_type), obstacle_queue'[i].seq)
     /\ \A s \in SensorIds :
          ~SameEntry(last_msg', last_msg, s) =>
             last_msg'[s].distances = BurstDistances(CameraOfSensor(s), last_popped'[s])]_vars

\* the message emitted last for the front camera carries the distances of
\* its frame although the reader has overwritten its array with a later
\* frame, and samples queued for both cameras differ from the arrays the
\* readers hold now
W_C30_EmittedAfterOverwrite ==
  /\ FRONT_CAM_SENSOR_TYPE \in DOMAIN last_msg
  /\ last_msg[FRONT_CAM_SENSOR_TYPE].time_usec = SensingTime(last_popped[FRONT_CAM_SENSOR_TYPE])
  /\ last_msg[FRONT_CAM_SENSOR_TYPE].distances # cam_distances["front"]
  /\ sender_event = [kind |-> "sent", sensor |-> FRONT_CAM_SENSOR_TYPE]
  /\ \A c \in CameraNames : \E i \in 1..Len(obstacle_queue) :
       obstacle_queue[i].sensor_type = sensor_type(c) /\ obstacle_queue[i].distances # cam_distances[c]

(* --------------------- claims on the running loops --------------------- *)
\* C31: while no shutdown is requested the sender keeps polling, also after
\* it found the queue empty: every sample in the queue eventually has left
\* it, popped by the sender or pushed out by a later append, provided the
\* sender thread gets to run.
C31_EverySampleLeavesQueue ==
  \A s \in SensorIds : \A n \in 1 .. MaxLife :
    (<<s, n>> \in Keys(obstacle_queue)) ~> (<<s, n>> \notin Keys(obstacle_queue) /\ (Consumed(<<s, n>>) = 1 \/ <<s, n>> \in evicted))

\* the sender found the queue empty, samples were appended afterwards, and
\* the sender popped them all
W_C31_PoppedAfterEmptyPoll ==
  /\ obstacle_queue = <<>>
  /\ pops = TotalPushes
  /\ pops >= 4
  /\ \A s \in SensorIds : DictGet(pushes, s, 0) >= 2
  /\ sender_event.kind = "empty"

\* C32: a heartbeat thread that runs makes another attempt again and again,
\* whatever the queue holds and whatever the cameras do, also after an attempt
\* that failed; and as long as no exit flag is set a thread that runs keeps
\* running, whichever loop an iteration has failed in.
C32_LoopsSurviveFailures ==
  /\ \A b \in {0, 1} : (heartbeat_thread = "running" /\ heartbeat_event.tick = b) ~> (heartbeat_event.tick # b)
  /\ [][/\ (heartbeat_thread = "running" /\ ~mav_time_to_exit) => heartbeat_thread' = "running"
        /\ (receive_thread = "running" /\ ~mav_time_to_exit) => receive_thread' = "running"
        /\ (obstacle_thread = "running" /\ ~mav_time_to_exit) => obstacle_thread' = "running"
        /\ \A c \in CameraNames : (camera_thread[c] = "running" /\ ~cam_time_to_exit[c]) => camera_thread'[c] = "running"]_vars

\* the last heartbeat send failed after an earlier attempt, the last
\* iteration of the attitude loop, of the sender and of a reader failed too,
\* and all four kinds of threads are running
W_C32_AllLoopsFailedAndRun ==
  /\ heartbeat_event = [kind |-> "send_failed", tick |-> 0]
  /\ receive_event = "failed"
  /\ sender_event.kind = "send_failed"
  /\ \E c \in CameraNames : cam_event[c] = "wait_failed" /\ camera_thread[c] = "running" /\ DictGet(pushes, sensor_type(c), 0) >= 1
  /\ heartbeat_thread = "running" /\ receive_thread = "running" /\ obstacle_thread = "running"

\* C33: the sensor of a camera is registered before its reader thread exists,
\* so the sensor of every started reader and of every queued sample has its
\* parameters, and the sender never drops a sample as one of an unconfigured
\* sensor.
C33_RegisteredBeforePush ==
  /\ \A c \in CameraNames : camera_thread[c] # "None" => sensor_type(c) \in DOMAIN camera_params
  /\ \A i \in 1..Len(obstacle_queue) : obstacle_queue[i].sensor_type \in DOMAIN camera_params
  /\ sender_event.kind # "unconfigured"

\* the sender has just sent a sample of a camera whose reader runs while a
\* sample of the other camera waits in the queue
W_C33_SentForRunningCamera ==
  /\ sender_event.kind = "sent"
  /\ \E c \in CameraNames : sensor_type(c) = sender_event.sensor /\ camera_thread[c] = "running"
  /\ \E i \in 1..Len(obstacle_queue) : obstacle_queue[i].sensor_type # sender_event.sensor

\* the sender pops a sample in this step
Pops == pops' = pops + 1
\* the sample the sender pops
PoppedSample == Head(obstacle_queue)

\* C34: a sample whose transport send failed has left the queue and its
\* sensing time is the last sent time of its sensor all the same, although
\* no message was emitted; and a sample popped next after a failed send that
\* has the sensor and the sensing time of the failed one is dropped as a
\* duplicate: nothing is emitted for it.
C34_FailedSendCountsAsSent ==
  [][Pops =>
       LET x == PoppedSample
           s == x.sensor_type
       IN /\ sender_event'.kind = "send_failed" =>
               /\ last_obstacle_distance_sent_ms'[s] = x.sensing_time
               /\ last_msg' = last_msg
               /\ <<s, x.seq>> \notin Keys(obstacle_queue')
          /\ (sender_event = [kind |-> "send_failed", sensor |-> s] /\ x.sensing_time = LastSentTime(s)) =>
               /\ sender_event'.kind = "duplicate"
               /\ last_msg' = last_msg
               /\ last_obstacle_distance_sent_ms' = last_obstacle_distance_sent_ms]_vars

\* a sample was dropped as a duplicate of a sample of its sensor whose send
\* failed: the last sent time of the sensor is a frame's time, and no message
\* was ever emitted for the sensor
W_C34_DuplicateOfFailedSend ==
  /\ sender_event.kind = "duplicate"
  /\ pops >= 2
  /\ sender_event.sensor \notin DOMAIN last_msg
  /\ LastSentTime(sender_event.sensor) # 0

\* the transport send was attempted for the sample popped in this step
Emitted == sender_event'.kind \in {"sent", "send_failed"}

\* C35: configure_sensor leaves the last sent time of its sensor at 0, and
\* the sample of a configured sensor that is popped while that time is 0 is
\* handed to the transport exactly when its sensing time is not 0; with a
\* sensing time of 0 it is dropped as a duplicate and nothing is emitted.
C35_FirstSampleAfterConfigure ==
  [][/\ config_call'.n # config_call.n => DictGet(last_obstacle_distance_sent_ms', config_call'.sensor, 0 - 1) = 0
     /\ Pops =>
          LET x == PoppedSample
              s == x.sensor_type
          IN (s \in DOMAIN camera_params /\ LastSentTime(s) = 0) =>
               /\ Emitted <=> x.sensing_time # 0
               /\ x.sensing_time = 0 => sender_event'.kind = "duplicate" /\ last_msg' = last_msg]_vars

\* a sensor that had emitted a frame was configured again, and its next
\* sample, of sensing time 0, was dropped as a duplicate
W_C35_ZeroDroppedAfterReconfigure ==
  /\ sender_event.kind = "duplicate"
  /\ config_call.n >= 2
  /\ config_call.sensor = sender_event.sensor
  /\ sender_event.sensor \in DOMAIN last_msg
  /\ last_msg[sender_event.sensor].time_usec # 0
  /\ LastSentTime(sender_event.sensor) = 0

\* distances_from_depth_image was called on a camera whose rows were set,
\* under a valid scan-line configuration
ExtractionCalled == ValidScanLineConfig /\ ret.fn = "distances_from_depth_image" /\ ret.self.shape_set

\* C36: with a valid scan-line configuration, whatever pitch the centre row
\* was computed for, the rows distances_from_depth_image takes the minimum
\* over are at least one row and are rows of the image: 0 <= lower_pixel <
\* upper_pixel <= DEPTH_HEIGHT, and the call does not fail on an empty slice.
C36_WindowNonEmptyInImage ==
  ExtractionCalled =>
    /\ 0 <= ret.self.lower_pixel
    /\ ret.self.lower_pixel < ret.self.upper_pixel
    /\ ret.self.upper_pixel <= DEPTH_HEIGHT
    /\ WindowRows # {} /\ WindowRows \subseteq 0 .. (DEPTH_HEIGHT - 1)
    /\ ~ret.raised

\* a scan line of thickness 1 whose centre row was pushed to row 0 by a
\* pitch other than that of connect: the window is row 0 alone
W_C36_OneRowAtTop ==
  /\ ExtractionCalled
  /\ obstacle_line_thickness_pixel = 1
  /\ obstacle_line_height_ratio > 0
  /\ ret.self.obstacle_line_height = 0
  /\ WindowRows = {0}
  /\ ~ret.raised

\* C37: every entry of an array distances_from_depth_image returns is 65535
\* or a number of centimetres from min_depth_cm to max_depth_cm, and it is
\* the entry computed from the column of this depth matrix, whatever the
\* array held before the call.
C37_EntriesSentinelOrInRange ==
  Extracted =>
    \A i \in Entries :
      /\ ret.value[i] = NoObstacle \/ (ret.value[i] >= min_depth_cm /\ ret.value[i] <= max_depth_cm)
      /\ ret.value[i] = EntryOf(ColumnMinUm(i))

\* the array held 300 cm everywhere from an earlier frame and the matrix has
\* every pixel at exactly 8 m: every entry is 65535, none is 300 any more
W_C37_EarlierFrameOverwritten ==
  /\ Extracted
  /\ ret.distances = EarlierDistances
  /\ ret.arg.base = 8000 /\ ret.arg.val = 8000
  /\ \A i \in Entries : ret.value[i] = NoObstacle

\* MavlinkIntegration.stop() has returned
MavlinkStopped == main_pc = "exited"

\* C38: once MavlinkIntegration.stop() has returned the three threads have
\* ended and nothing is emitted any more: no obstacle-distance message, no
\* heartbeat, no pop; the samples the queue holds at that moment were never
\* popped and stay in the queue.
C38_NothingEmittedAfterStop ==
  /\ [](MavlinkStopped =>
          /\ heartbeat_thread # "running" /\ receive_thread # "running" /\ obstacle_thread # "running"
          /\ \A k \in Keys(obstacle_queue) : Consumed(k) = 0)
  /\ [][MavlinkStopped =>
          /\ last_msg' = last_msg
          /\ heartbeat_event' = heartbeat_event
          /\ sender_event' = sender_event
          /\ pops' = pops /\ consumed' = consumed
          /\ obstacle_queue' = obstacle_queue]_vars

\* stop() has returned after a message and a heartbeat were emitted, while
\* the queue holds a sample that was never sent
W_C38_StoppedWithQueuedSample ==
  /\ MavlinkStopped
  /\ obstacle_queue # <<>>
  /\ DOMAIN last_msg # {}
  /\ heartbeat_event.kind = "sent"
  /\ conn = "closed"

\* C39: the frame on_need_data hands out is never older than the frame an
\* earlier call handed out, and with an empty buffer it is the frame handed
\* out last.
C39_FramesInCaptureOrder ==
  [][number_frames' # number_frames =>
       /\ last_frame' >= last_frame
       /\ color_buffer = <<>> => last_frame' = last_frame]_vars

====
